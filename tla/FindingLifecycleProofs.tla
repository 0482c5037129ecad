----------------------- MODULE FindingLifecycleProofs -----------------------
(* Proofs about FindingLifecycle for any number of handlers, requests and     *)
(* cards.  They rest on the row's id being settled by the first write: what   *)
(* was read of the row, and every event about it, carries that id, unless two *)
(* first observations overlapped.                                             *)
EXTENDS FindingLifecycle, TLAPS

Stored == row # NoRow

\* One card is enough.
LEMMA SumIsPositive == \A m, n \in Nat : m > 0 => m + n > 0
OBVIOUS

\* The row has an id once it is stored, and is known to no one before.
StoredRow ==
    /\ Stored => row.id \in Observations /\ row.status # "none"
    /\ ~Stored => raised = {} /\ Filing = {} /\ live + binned = 0

\* An entity that was read is the row's; a request reads a row that is there.
ReadRows ==
    /\ \A o \in Observations : obs[o].at = "read" =>
            obs[o].entity = NoRow \/ (Stored /\ obs[o].entity.id = row.id
                                             /\ obs[o].entity.status # "none")
    /\ \A p \in Operators : op[p].at = "read" =>
            Stored /\ op[p].entity.id = row.id /\ op[p].entity.status # "none"

\* An id to raise is the stored row's.
Raising ==
    \A o \in Observations : obs[o].at = "raising" =>
        Stored /\ obs[o].entity.id \in Observations
               /\ ("twins" \notin lapses => obs[o].entity.id = row.id)

\* A handler that has found no card is right, as long as it is alone.
NoCardYet == "crowd" \notin lapses /\ Filing # {} => live + binned = 0

\* What FiledOrOnItsWay says, whatever the status.
Filed ==
    Stored /\ row.severe /\ lapses \cap {"unheard", "torn"} = {} => HasCard \/ NewsOnItsWay

IInv ==
    /\ TypeOK /\ StoredRow /\ ReadRows /\ Raising
    /\ "twins" \in lapses => "torn" \in lapses
    /\ RaisedFindsTheRow
    /\ OneCard /\ NoCardYet
    /\ Filed
    /\ BinnedOrOnItsWay

-----------------------------------------------------------------------------

\* Every step leaves the state well typed.
LEMMA TypeStep == TypeOK /\ [Next]_vars => TypeOK'
<1> SUFFICES ASSUME TypeOK, [Next]_vars PROVE TypeOK'
  OBVIOUS
<1> USE ConstantsAssumption DEF ConstantsAssumption, TypeOK, Row, NoRow, Idle, Terminal, Lapses, Lapse
<1>1. ASSUME NEW o \in Observations, Observe(o) PROVE TypeOK'
  BY <1>1 DEF Observe
<1>2. ASSUME NEW o \in Observations, Record(o) PROVE TypeOK'
  <2>1. PICK s \in BOOLEAN :
          /\ Upsert(Observed(o, s))
          /\ obs' = [obs EXCEPT ![o] =
                IF News(o, s)
                THEN [at |-> "raising", entity |-> [NoRow EXCEPT !.id = Observed(o, s).id]]
                ELSE Idle]
    BY <1>2 DEF Record
  <2>2. Observed(o, s) \in Row
    BY DEF Observed
  <2>3. row' \in Row
    BY <2>1, <2>2 DEF Upsert
  <2>4. [NoRow EXCEPT !.id = Observed(o, s).id] \in Row
    BY <2>2
  <2>5. obs' \in [Observations -> [at : {"idle", "read", "raising"}, entity : Row]]
    BY <2>1, <2>4
  <2> QED
    BY <1>2, <2>3, <2>5 DEF Record
<1>3. ASSUME NEW o \in Observations, Raise(o) PROVE TypeOK'
  BY <1>3 DEF Raise
<1>4. ASSUME NEW o \in Observations, ObserverStops(o) PROVE TypeOK'
  BY <1>4 DEF ObserverStops
<1>5. ASSUME NEW p \in Operators, Ask(p) PROVE TypeOK'
  BY <1>5 DEF Ask
<1>6. ASSUME NEW p \in Operators, AskInVain(p) PROVE TypeOK'
  BY <1>6 DEF AskInVain
<1>7. ASSUME NEW p \in Operators, Change(p) PROVE TypeOK'
  <2>1. PICK s \in {"open"} \cup Terminal :
          /\ Upsert([op[p].entity EXCEPT !.status = s])
          /\ op' = [op EXCEPT ![p] =
                [Idle EXCEPT !.at = IF TellsBoard(s) THEN "publishing" ELSE "idle"]]
    BY <1>7 DEF Change
  <2>2. row' \in Row
    BY <2>1 DEF Upsert
  <2>3. op' \in [Operators -> [at : {"idle", "read", "publishing"}, entity : Row]]
    BY <2>1
  <2> QED
    BY <1>7, <2>2, <2>3 DEF Change
<1>8. ASSUME NEW p \in Operators, Publish(p) PROVE TypeOK'
  BY <1>8 DEF Publish
<1>9. ASSUME NEW p \in Operators, PublishFails(p) PROVE TypeOK'
  BY <1>9 DEF PublishFails
<1>10. ASSUME NEW f \in Filers, File(f) PROVE TypeOK'
  BY <1>10 DEF File, Filing
<1>11. ASSUME NEW f \in Filers, FilerStops(f) PROVE TypeOK'
  BY <1>11 DEF FilerStops, Filing
<1>12. ASSUME NEW f \in Filers, NEW i \in Observations, LookUp(f, i) PROVE TypeOK'
  BY <1>12 DEF LookUp
<1>13. ASSUME Archive PROVE TypeOK'
  <2>1. live' \in 0..MaxCards
    BY <1>13 DEF Archive
  <2>2. live \in Nat /\ binned \in Nat /\ MaxCards \in Nat
    OBVIOUS
  <2>3. binned' \in 0..MaxCards
    BY <1>13, <2>2 DEF Archive
  <2> QED
    BY <1>13, <2>1, <2>3 DEF Archive
<1>14. ASSUME ArchiveFails PROVE TypeOK'
  BY <1>14 DEF ArchiveFails
<1>15. CASE UNCHANGED vars
  BY <1>15 DEF vars
<1> QED
  BY <1>1, <1>2, <1>3, <1>4, <1>5, <1>6, <1>7, <1>8, <1>9, <1>10, <1>11, <1>12, <1>13, <1>14, <1>15 DEF Next

\* What is known of the row's id.
Ids ==
    /\ StoredRow /\ ReadRows /\ Raising /\ RaisedFindsTheRow
    /\ "twins" \in lapses => "torn" \in lapses

LEMMA IdStep == TypeOK /\ Ids /\ [Next]_vars => Ids'
<1> SUFFICES ASSUME TypeOK, Ids, [Next]_vars PROVE Ids'
  OBVIOUS
<1> USE ConstantsAssumption DEF ConstantsAssumption, TypeOK, Row, NoRow, Idle, Terminal, Lapse,
        Ids, StoredRow, ReadRows, Raising, RaisedFindsTheRow, Stored
<1>1. ASSUME NEW o \in Observations, Observe(o) PROVE Ids'
  BY <1>1 DEF Observe, Filing
<1>2. ASSUME NEW o \in Observations, Record(o) PROVE Ids'
  <2>1. PICK s \in BOOLEAN :
          /\ Upsert(Observed(o, s))
          /\ obs' = [obs EXCEPT ![o] =
                IF News(o, s)
                THEN [at |-> "raising", entity |-> [NoRow EXCEPT !.id = Observed(o, s).id]]
                ELSE Idle]
    BY <1>2 DEF Record
  <2>2. /\ UNCHANGED <<op, raised, filer>>
        /\ lapses \subseteq lapses'
        /\ obs[o].entity = NoRow /\ Stored => "twins" \in lapses' /\ "torn" \in lapses'
        /\ "twins" \in lapses' => "torn" \in lapses' \/ "twins" \in lapses
    BY <1>2 DEF Record, Stored
  <2>3. Stored' /\ row'.id \in Observations /\ row'.status = "open"
    BY <1>2, <2>1, <2>2 DEF Record, Upsert, Observed
  <2>4. row'.id = IF Stored THEN row.id ELSE o
    BY <1>2, <2>1 DEF Record, Upsert, Observed
  <2>5. Observed(o, s).id \in Observations
        /\ ("twins" \notin lapses' => Observed(o, s).id = row'.id)
    BY <1>2, <2>2, <2>4 DEF Record, Observed
  <2>6. StoredRow'
    BY <2>3 DEF StoredRow
  <2>7. ReadRows'
    <3>1. ASSUME NEW e \in Observations, obs'[e].at = "read"
          PROVE  e # o /\ obs'[e] = obs[e]
      BY <2>1, <3>1
    <3>2. ASSUME NEW e \in Observations, obs'[e].at = "read"
          PROVE  \/ obs'[e].entity = NoRow
                 \/ /\ obs'[e].entity.id = row'.id
                    /\ obs'[e].entity.status # "none"
      <4>1. obs'[e] = obs[e] /\ obs[e].at = "read"
        BY <3>1, <3>2
      <4>2. \/ obs[e].entity = NoRow
            \/ Stored /\ obs[e].entity.id = row.id /\ obs[e].entity.status # "none"
        BY <4>1
      <4> QED
        BY <4>1, <4>2, <2>4
    <3>3. ASSUME NEW p \in Operators, op'[p].at = "read"
          PROVE  Stored /\ op'[p].entity.id = row'.id /\ op'[p].entity.status # "none"
      BY <3>3, <2>2, <2>4
    <3> QED
      BY <2>3, <3>2, <3>3
  <2>8. Raising'
    BY <2>1, <2>2, <2>3, <2>4, <2>5 DEF Raising
  <2>9. RaisedFindsTheRow'
    BY <2>2, <2>3, <2>4 DEF RaisedFindsTheRow, Filing
  <2> QED
    BY <2>2, <2>6, <2>7, <2>8, <2>9
<1>3. ASSUME NEW o \in Observations, Raise(o) PROVE Ids'
  BY <1>3 DEF Raise, Filing
<1>4. ASSUME NEW o \in Observations, ObserverStops(o) PROVE Ids'
  BY <1>4 DEF ObserverStops, Filing
<1>5. ASSUME NEW p \in Operators, Ask(p) PROVE Ids'
  BY <1>5 DEF Ask, Filing
<1>6. ASSUME NEW p \in Operators, AskInVain(p) PROVE Ids'
  BY <1>6 DEF AskInVain, Filing
<1>7. ASSUME NEW p \in Operators, Change(p) PROVE Ids'
  <2>1. PICK s \in {"open"} \cup Terminal :
          /\ Upsert([op[p].entity EXCEPT !.status = s])
          /\ op' = [op EXCEPT ![p] =
                [Idle EXCEPT !.at = IF TellsBoard(s) THEN "publishing" ELSE "idle"]]
    BY <1>7 DEF Change
  <2>2. Stored /\ Stored' /\ row'.id = row.id /\ row'.status = s
    BY <1>7, <2>1 DEF Change, Upsert
  <2>3. op'[p].at # "read"
    BY <2>1
  <2> QED
    BY <1>7, <2>1, <2>2, <2>3 DEF Change, Filing
<1>8. ASSUME NEW p \in Operators, Publish(p) PROVE Ids'
  BY <1>8 DEF Publish, Filing
<1>9. ASSUME NEW p \in Operators, PublishFails(p) PROVE Ids'
  BY <1>9 DEF PublishFails, Filing
<1>10. ASSUME NEW f \in Filers, File(f) PROVE Ids'
  BY <1>10 DEF File, Filing
<1>11. ASSUME NEW f \in Filers, FilerStops(f) PROVE Ids'
  BY <1>11 DEF FilerStops, Filing
<1>12. ASSUME NEW f \in Filers, NEW i \in Observations, LookUp(f, i) PROVE Ids'
  BY <1>12 DEF LookUp, Filing, Files
<1>13. ASSUME Archive PROVE Ids'
  <2>1. live \in Nat /\ binned \in Nat /\ MaxCards \in Nat
    OBVIOUS
  <2>2. live + binned = 0 => live' + binned' = 0
    BY <1>13, <2>1 DEF Archive
  <2> QED
    BY <1>13, <2>2 DEF Archive, Filing
<1>14. ASSUME ArchiveFails PROVE Ids'
  BY <1>14 DEF ArchiveFails, Filing
<1>15. CASE UNCHANGED vars
  BY <1>15 DEF vars, Filing
<1> QED
  BY <1>1, <1>2, <1>3, <1>4, <1>5, <1>6, <1>7, <1>8, <1>9, <1>10, <1>11, <1>12, <1>13, <1>14, <1>15 DEF Next

LEMMA CardStep == TypeOK /\ OneCard /\ NoCardYet /\ [Next]_vars => OneCard' /\ NoCardYet'
<1> SUFFICES ASSUME TypeOK, OneCard, NoCardYet, [Next]_vars PROVE OneCard' /\ NoCardYet'
  OBVIOUS
<1> USE ConstantsAssumption DEF ConstantsAssumption, TypeOK, Lapse, OneCard, NoCardYet
<1>1. ASSUME NEW o \in Observations, Observe(o) PROVE OneCard' /\ NoCardYet'
  BY <1>1 DEF Observe, Filing
<1>2. ASSUME NEW o \in Observations, Record(o) PROVE OneCard' /\ NoCardYet'
  BY <1>2 DEF Record, Filing
<1>3. ASSUME NEW o \in Observations, Raise(o) PROVE OneCard' /\ NoCardYet'
  BY <1>3 DEF Raise, Filing
<1>4. ASSUME NEW o \in Observations, ObserverStops(o) PROVE OneCard' /\ NoCardYet'
  BY <1>4 DEF ObserverStops, Filing
<1>5. ASSUME NEW p \in Operators, Ask(p) PROVE OneCard' /\ NoCardYet'
  BY <1>5 DEF Ask, Filing
<1>6. ASSUME NEW p \in Operators, AskInVain(p) PROVE OneCard' /\ NoCardYet'
  BY <1>6 DEF AskInVain, Filing
<1>7. ASSUME NEW p \in Operators, Change(p) PROVE OneCard' /\ NoCardYet'
  BY <1>7 DEF Change, Filing
<1>8. ASSUME NEW p \in Operators, Publish(p) PROVE OneCard' /\ NoCardYet'
  BY <1>8 DEF Publish, Filing
<1>9. ASSUME NEW p \in Operators, PublishFails(p) PROVE OneCard' /\ NoCardYet'
  BY <1>9 DEF PublishFails, Filing
<1>10. ASSUME NEW f \in Filers, File(f) PROVE OneCard' /\ NoCardYet'
  <2>1. live \in Nat /\ binned \in Nat /\ MaxCards \in Nat \ {0}
    OBVIOUS
  <2>2. CASE "crowd" \in lapses'
    BY <2>2
  <2>3. CASE "crowd" \notin lapses'
    <3>1. Filing = {f} /\ "crowd" \notin lapses
      BY <1>10, <2>3 DEF File
    <3>2. Filing' = {}
      BY <1>10, <3>1 DEF File, Filing
    <3>3. live + binned = 0
      BY <3>1
    <3>4. live' + binned' = 1
      BY <1>10, <2>1, <3>3 DEF File
    <3> QED
      BY <3>2, <3>4
  <2> QED
    BY <2>2, <2>3
<1>11. ASSUME NEW f \in Filers, FilerStops(f) PROVE OneCard' /\ NoCardYet'
  BY <1>11 DEF FilerStops, Filing
<1>12. ASSUME NEW f \in Filers, NEW i \in Observations, LookUp(f, i) PROVE OneCard' /\ NoCardYet'
  <2>1. live \in Nat /\ binned \in Nat /\ MaxCards \in Nat \ {0}
    OBVIOUS
  <2>2. CASE Files(i)
    BY <1>12, <2>1, <2>2 DEF LookUp, Files, HasCard
  <2>3. CASE ~Files(i)
    BY <1>12, <2>3 DEF LookUp, Filing
  <2> QED
    BY <2>2, <2>3
<1>13. ASSUME Archive PROVE OneCard' /\ NoCardYet'
  <2>1. live \in Nat /\ binned \in Nat /\ MaxCards \in Nat \ {0}
    OBVIOUS
  <2>2. live + binned <= 1 => live' + binned' = live + binned
    BY <1>13, <2>1 DEF Archive
  <2>3. Filing' = Filing /\ lapses' = lapses
    BY <1>13 DEF Archive, Filing
  <2> QED
    BY <2>1, <2>2, <2>3
<1>14. ASSUME ArchiveFails PROVE OneCard' /\ NoCardYet'
  BY <1>14 DEF ArchiveFails, Filing
<1>15. CASE UNCHANGED vars
  BY <1>15 DEF vars, Filing
<1> QED
  BY <1>1, <1>2, <1>3, <1>4, <1>5, <1>6, <1>7, <1>8, <1>9, <1>10, <1>11, <1>12, <1>13, <1>14, <1>15 DEF Next

\* A severe row that nobody has overwritten unread keeps its card, or the news of it.
LEMMA FiledStep == TypeOK /\ Ids /\ Filed /\ [Next]_vars => Filed'
<1> SUFFICES ASSUME TypeOK, Ids, Filed, [Next]_vars,
                    Stored', row'.severe, lapses' \cap {"unheard", "torn"} = {}
             PROVE  (HasCard \/ NewsOnItsWay)'
  BY DEF Filed
<1>0. /\ ConstantsAssumption
      /\ "twins" \notin lapses'
      /\ \A o \in Observations : obs[o] \in [at : {"idle", "read", "raising"}, entity : Row]
      /\ row \in Row
  BY ConstantsAssumption, IdStep DEF TypeOK, Ids
<1> USE <1>0 DEF ConstantsAssumption, Idle
<1>1. ASSUME NEW o \in Observations, Observe(o) PROVE (HasCard \/ NewsOnItsWay)'
  BY <1>1 DEF Observe, Filed, Stored, NewsOnItsWay, HasCard, Filing
<1>2. ASSUME NEW o \in Observations, Record(o) PROVE (HasCard \/ NewsOnItsWay)'
  <2>1. PICK s \in BOOLEAN :
          /\ Upsert(Observed(o, s))
          /\ obs' = [obs EXCEPT ![o] =
                IF News(o, s)
                THEN [at |-> "raising", entity |-> [NoRow EXCEPT !.id = Observed(o, s).id]]
                ELSE Idle]
    BY <1>2 DEF Record
  <2>2. obs[o].entity = row /\ obs[o].at = "read"
    BY <1>2 DEF Record, Lapse
  <2>3. CASE News(o, s)
    BY <2>1, <2>3 DEF NewsOnItsWay, TypeOK
  <2>4. CASE ~News(o, s)
    <3>1. row.severe = s /\ row.status = "open"
      BY <2>2, <2>4 DEF News
    <3>2. Stored /\ row'.severe = s /\ row'.id = row.id
      BY <2>1, <2>2, <3>1 DEF Upsert, Observed, Stored, NoRow, Row
    <3>3. lapses \cap {"unheard", "torn"} = {}
      BY <1>2 DEF Record
    <3>4. HasCard \/ NewsOnItsWay
      BY <3>1, <3>2, <3>3 DEF Filed
    <3>5. \A e \in Observations : obs[e].at = "raising" => obs'[e].at = "raising"
      BY <2>1, <2>2
    <3> QED
      BY <1>2, <3>2, <3>4, <3>5 DEF Record, NewsOnItsWay, HasCard, Filing
  <2> QED
    BY <2>3, <2>4
<1>3. ASSUME NEW o \in Observations, Raise(o) PROVE (HasCard \/ NewsOnItsWay)'
  <2>1. row.id \in raised'
    BY <1>3 DEF Raise, Ids, Raising
  <2> QED
    BY <1>3, <2>1 DEF Raise, NewsOnItsWay
<1>4. ASSUME NEW o \in Observations, ObserverStops(o) PROVE (HasCard \/ NewsOnItsWay)'
  <2>1. obs[o].at # "raising"
    BY <1>4 DEF ObserverStops, Lapse
  <2>2. \A e \in Observations : obs[e].at = "raising" => obs'[e].at = "raising"
    BY <1>4, <2>1 DEF ObserverStops
  <2>3. HasCard \/ NewsOnItsWay
    BY <1>4 DEF ObserverStops, Filed, Stored
  <2> QED
    BY <1>4, <2>2, <2>3 DEF ObserverStops, NewsOnItsWay, HasCard, Filing
<1>5. ASSUME NEW p \in Operators, Ask(p) PROVE (HasCard \/ NewsOnItsWay)'
  BY <1>5 DEF Ask, Filed, Stored, NewsOnItsWay, HasCard, Filing
<1>6. ASSUME NEW p \in Operators, AskInVain(p) PROVE (HasCard \/ NewsOnItsWay)'
  BY <1>6 DEF AskInVain, Filed, Stored, NewsOnItsWay, HasCard, Filing
<1>7. ASSUME NEW p \in Operators, Change(p) PROVE (HasCard \/ NewsOnItsWay)'
  <2>1. PICK s \in {"open"} \cup Terminal :
          /\ Upsert([op[p].entity EXCEPT !.status = s])
          /\ op' = [op EXCEPT ![p] =
                [Idle EXCEPT !.at = IF TellsBoard(s) THEN "publishing" ELSE "idle"]]
    BY <1>7 DEF Change
  <2>2. op[p].entity = row /\ Stored
    BY <1>7 DEF Change, Lapse, Ids, ReadRows
  <2>3. row'.severe = row.severe /\ row'.id = row.id
    BY <2>1, <2>2 DEF Upsert, Stored, Row
  <2>4. HasCard \/ NewsOnItsWay
    BY <1>7, <2>2, <2>3 DEF Change, Filed
  <2> QED
    BY <1>7, <2>3, <2>4 DEF Change, NewsOnItsWay, HasCard, Filing
<1>8. ASSUME NEW p \in Operators, Publish(p) PROVE (HasCard \/ NewsOnItsWay)'
  BY <1>8 DEF Publish, Filed, Stored, NewsOnItsWay, HasCard, Filing
<1>9. ASSUME NEW p \in Operators, PublishFails(p) PROVE (HasCard \/ NewsOnItsWay)'
  BY <1>9 DEF PublishFails, Filed, Stored, NewsOnItsWay, HasCard, Filing
<1>10. ASSUME NEW f \in Filers, File(f) PROVE (HasCard \/ NewsOnItsWay)'
  <2>1. live \in Nat /\ binned \in Nat /\ MaxCards \in Nat \ {0}
    BY DEF TypeOK
  <2>2. live' \in Nat /\ live' > 0 /\ binned' \in Nat
    BY <1>10, <2>1 DEF File
  <2>3. live' + binned' > 0
    BY ONLY <2>2, SumIsPositive
  <2>4. HasCard'
    BY <2>3 DEF HasCard
  <2> QED
    BY <2>4
<1>11. ASSUME NEW f \in Filers, FilerStops(f) PROVE (HasCard \/ NewsOnItsWay)'
  <2>1. filer[f] = row.id
    BY <1>11 DEF FilerStops, Ids, RaisedFindsTheRow
  <2>2. row.id \in raised'
    BY <1>11, <2>1 DEF FilerStops
  <2> QED
    BY <1>11, <2>2 DEF FilerStops, NewsOnItsWay
<1>12. ASSUME NEW f \in Filers, NEW i \in Observations, LookUp(f, i) PROVE (HasCard \/ NewsOnItsWay)'
  <2>1. HasCard \/ NewsOnItsWay
    BY <1>12 DEF LookUp, Filed, Stored
  <2>2. CASE HasCard
    BY <1>12, <2>2 DEF LookUp, HasCard
  <2>3. CASE ~HasCard /\ i = row.id
    <3>1. Files(i)
      BY <1>12, <2>3 DEF LookUp, Files
    <3>2. filer'[f] # NoId
      BY <1>12, <3>1 DEF LookUp, TypeOK
    <3> QED
      BY <3>2 DEF NewsOnItsWay, Filing
  <2>4. CASE ~HasCard /\ i # row.id
    <3>1. row.id \in raised => row.id \in raised'
      BY <1>12, <2>4 DEF LookUp
    <3>2. Filing \subseteq Filing'
      BY <1>12 DEF LookUp, Filing, TypeOK
    <3> QED
      BY <1>12, <2>1, <2>4, <3>1, <3>2 DEF LookUp, NewsOnItsWay
  <2> QED
    BY <2>2, <2>3, <2>4
<1>13. ASSUME Archive PROVE (HasCard \/ NewsOnItsWay)'
  <2>1. live \in Nat /\ binned \in Nat /\ MaxCards \in Nat \ {0}
    BY DEF TypeOK
  <2>2. HasCard \/ NewsOnItsWay
    BY <1>13 DEF Archive, Filed, Stored
  <2>3. HasCard => HasCard'
    BY <1>13, <2>1 DEF Archive, HasCard
  <2> QED
    BY <1>13, <2>2, <2>3 DEF Archive, NewsOnItsWay, Filing
<1>14. ASSUME ArchiveFails PROVE (HasCard \/ NewsOnItsWay)'
  BY <1>14 DEF ArchiveFails, Filed, Stored, NewsOnItsWay, HasCard, Filing
<1>15. CASE UNCHANGED vars
  BY <1>15 DEF vars, Filed, Stored, NewsOnItsWay, HasCard, Filing
<1> QED
  BY <1>1, <1>2, <1>3, <1>4, <1>5, <1>6, <1>7, <1>8, <1>9, <1>10, <1>11, <1>12, <1>13, <1>14, <1>15 DEF Next

\* A suppressed finding's cards are off the board, or an archiving is to come.
LEMMA BinnedStep == TypeOK /\ BinnedOrOnItsWay /\ [Next]_vars => BinnedOrOnItsWay'
<1> SUFFICES ASSUME TypeOK, BinnedOrOnItsWay, [Next]_vars PROVE BinnedOrOnItsWay'
  OBVIOUS
<1>1. ASSUME NEW o \in Observations, Observe(o) PROVE BinnedOrOnItsWay'
  BY <1>1 DEF Observe, BinnedOrOnItsWay, TypeOK, Idle, Lapse, Terminal
<1>2. ASSUME NEW o \in Observations, Record(o) PROVE BinnedOrOnItsWay'
  <2>1. PICK s \in BOOLEAN :
          /\ Upsert(Observed(o, s))
          /\ obs' = [obs EXCEPT ![o] =
                IF News(o, s)
                THEN [at |-> "raising", entity |-> [NoRow EXCEPT !.id = Observed(o, s).id]]
                ELSE Idle]
    BY <1>2 DEF Record
  <2>2. row'.status = "open"
    BY <1>2, <2>1 DEF Record, Upsert, Observed, TypeOK, Row
  <2> QED
    BY <2>2 DEF BinnedOrOnItsWay
<1>3. ASSUME NEW o \in Observations, Raise(o) PROVE BinnedOrOnItsWay'
  BY <1>3 DEF Raise, BinnedOrOnItsWay, TypeOK, Idle, Lapse, Terminal
<1>4. ASSUME NEW o \in Observations, ObserverStops(o) PROVE BinnedOrOnItsWay'
  BY <1>4 DEF ObserverStops, BinnedOrOnItsWay, TypeOK, Idle, Lapse, Terminal
<1>5. ASSUME NEW p \in Operators, Ask(p) PROVE BinnedOrOnItsWay'
  BY <1>5 DEF Ask, BinnedOrOnItsWay, TypeOK, Idle, Lapse, Terminal
<1>6. ASSUME NEW p \in Operators, AskInVain(p) PROVE BinnedOrOnItsWay'
  BY <1>6 DEF AskInVain, BinnedOrOnItsWay, TypeOK, Idle, Lapse, Terminal
<1>7. ASSUME NEW p \in Operators, Change(p) PROVE BinnedOrOnItsWay'
  <2>1. PICK s \in {"open"} \cup Terminal :
          /\ Upsert([op[p].entity EXCEPT !.status = s])
          /\ op' = [op EXCEPT ![p] =
                [Idle EXCEPT !.at = IF TellsBoard(s) THEN "publishing" ELSE "idle"]]
    BY <1>7 DEF Change
  <2>2. row'.status = s
    BY <1>7, <2>1 DEF Change, Upsert, TypeOK, Row
  <2>3. s = "suppressed" => op'[p].at = "publishing"
    BY <2>1 DEF TellsBoard, TypeOK, Idle
  <2> QED
    BY <2>2, <2>3 DEF BinnedOrOnItsWay
<1>8. ASSUME NEW p \in Operators, Publish(p) PROVE BinnedOrOnItsWay'
  BY <1>8 DEF Publish, BinnedOrOnItsWay, TypeOK, Idle, Lapse, Terminal
<1>9. ASSUME NEW p \in Operators, PublishFails(p) PROVE BinnedOrOnItsWay'
  BY <1>9 DEF PublishFails, BinnedOrOnItsWay, TypeOK, Idle, Lapse, Terminal
<1>10. ASSUME NEW f \in Filers, File(f) PROVE BinnedOrOnItsWay'
  BY <1>10 DEF File, BinnedOrOnItsWay, TypeOK, Idle, Lapse, Terminal
<1>11. ASSUME NEW f \in Filers, FilerStops(f) PROVE BinnedOrOnItsWay'
  BY <1>11 DEF FilerStops, BinnedOrOnItsWay, TypeOK, Idle, Lapse, Terminal
<1>12. ASSUME NEW f \in Filers, NEW i \in Observations, LookUp(f, i) PROVE BinnedOrOnItsWay'
  BY <1>12 DEF LookUp, BinnedOrOnItsWay
<1>13. ASSUME Archive PROVE BinnedOrOnItsWay'
  BY <1>13 DEF Archive, BinnedOrOnItsWay
<1>14. ASSUME ArchiveFails PROVE BinnedOrOnItsWay'
  BY <1>14 DEF ArchiveFails, BinnedOrOnItsWay, Lapse
<1>15. CASE UNCHANGED vars
  BY <1>15 DEF vars, BinnedOrOnItsWay
<1> QED
  BY <1>1, <1>2, <1>3, <1>4, <1>5, <1>6, <1>7, <1>8, <1>9, <1>10, <1>11, <1>12, <1>13, <1>14, <1>15 DEF Next

LEMMA Start == Init => IInv
<1> SUFFICES ASSUME Init PROVE IInv
  OBVIOUS
<1> USE ConstantsAssumption DEF ConstantsAssumption, Init
<1>0. 0 \in 0..MaxCards
  OBVIOUS
<1>1. TypeOK
  <2>1. NoRow \in Row
    BY DEF Row, NoRow
  <2>2. /\ obs \in [Observations -> [at : {"idle", "read", "raising"}, entity : Row]]
        /\ op \in [Operators -> [at : {"idle", "read", "publishing"}, entity : Row]]
    BY <2>1 DEF Idle
  <2> QED
    BY <1>0, <2>1, <2>2 DEF TypeOK
<1>2. Filing = {} /\ ~Stored
  BY DEF Filing, Stored
<1>3. Ids
  BY <1>2 DEF Ids, StoredRow, ReadRows, Raising, RaisedFindsTheRow, Idle
<1>4. OneCard /\ NoCardYet /\ Filed /\ BinnedOrOnItsWay
  BY <1>2 DEF OneCard, NoCardYet, Filed, BinnedOrOnItsWay
<1> QED
  BY <1>1, <1>3, <1>4 DEF IInv, Ids

LEMMA Inductive == Spec => []IInv
<1>1. Init => IInv
  BY Start
<1>2. IInv /\ [Next]_vars => IInv'
  BY TypeStep, IdStep, CardStep, FiledStep, BinnedStep DEF IInv, Ids
<1> QED
  BY <1>1, <1>2, PTL DEF Spec

-----------------------------------------------------------------------------

\* Every variable keeps its type, for any number of handlers and requests.
THEOREM TypeCorrect == Spec => []TypeOK
<1>1. IInv => TypeOK
  BY DEF IInv
<1> QED
  BY <1>1, Inductive, PTL

\* However often the finding is raised, and by whomever it is handled, it has one card
\* as long as no two handlers were past the look-up together.
THEOREM OneCardForAFinding == Spec => []OneCard
<1>1. IInv => OneCard
  BY DEF IInv
<1> QED
  BY <1>1, Inductive, PTL

\* Every event names the stored row, as long as no two observations created it.
THEOREM EventsFindTheirRow == Spec => []RaisedFindsTheRow
<1>1. IInv => RaisedFindsTheRow
  BY DEF IInv
<1> QED
  BY <1>1, Inductive, PTL

\* No open finding at or above the floor is forgotten by the board, as long as nobody
\* dies between the row and the event and no change is overwritten unread.
THEOREM OpenIsNotForgotten == Spec => []FiledOrOnItsWay
<1>1. IInv => FiledOrOnItsWay
  BY DEF IInv, Filed, FiledOrOnItsWay, Stored, NoRow
<1> QED
  BY <1>1, Inductive, PTL

\* No suppressed finding keeps a card on the board, as long as its suppression reached
\* the board after the card.
THEOREM SuppressedIsTidied == Spec => []BinnedOrOnItsWay
<1>1. IInv => BinnedOrOnItsWay
  BY DEF IInv
<1> QED
  BY <1>1, Inductive, PTL

\* A terminal finding opens again on request or with an event to come, as long as no
\* change is overwritten unread.
THEOREM ReopeningIsTold == Spec => NoQuietReopening
<1> DEFINE Told ==
        row.status \in Terminal /\ row'.status = "open" /\ "torn" \notin lapses'
            => \/ \E p \in Operators : op[p].at = "read" /\ op'[p].at = "idle"
               \/ \E o \in Observations : obs[o].at = "read" /\ obs'[o].at = "raising"
<1>1. TypeOK /\ [Next]_vars => [Told]_vars
  <2> SUFFICES ASSUME TypeOK, [Next]_vars,
                      row.status \in Terminal, row'.status = "open", "torn" \notin lapses'
               PROVE  \/ \E p \in Operators : op[p].at = "read" /\ op'[p].at = "idle"
                      \/ \E o \in Observations : obs[o].at = "read" /\ obs'[o].at = "raising"
    OBVIOUS
  <2>1. row' # row
    BY DEF Terminal
  <2>2. CASE \E o \in Observations : Record(o)
    <3>1. PICK o \in Observations : Record(o)
      BY <2>2
    <3>2. obs[o].entity = row
      BY <3>1 DEF Record, Lapse
    <3>3. PICK s \in BOOLEAN :
            obs' = [obs EXCEPT ![o] =
                IF News(o, s)
                THEN [at |-> "raising", entity |-> [NoRow EXCEPT !.id = Observed(o, s).id]]
                ELSE Idle]
      BY <3>1 DEF Record
    <3>4. News(o, s)
      BY <3>2 DEF News, Terminal
    <3> QED
      BY <3>1, <3>3, <3>4 DEF Record, TypeOK
  <2>3. CASE \E p \in Operators : Change(p)
    <3>1. PICK p \in Operators : Change(p)
      BY <2>3
    <3>2. PICK s \in {"open"} \cup Terminal :
            /\ Upsert([op[p].entity EXCEPT !.status = s])
            /\ op' = [op EXCEPT ![p] =
                  [Idle EXCEPT !.at = IF TellsBoard(s) THEN "publishing" ELSE "idle"]]
      BY <3>1 DEF Change
    <3>3. row'.status = s
      BY <3>1, <3>2 DEF Change, Upsert, TypeOK, Row
    <3> QED
      BY <3>1, <3>2, <3>3 DEF Change, TypeOK, TellsBoard, Idle, Terminal
  <2> QED
    BY <2>1, <2>2, <2>3
    DEF Next, vars, Observe, Raise, ObserverStops, Ask, AskInVain, Publish, PublishFails,
        File, FilerStops, LookUp, Archive, ArchiveFails
<1> QED
  BY <1>1, TypeCorrect, PTL DEF Spec, NoQuietReopening
=============================================================================
