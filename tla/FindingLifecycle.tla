-------------------------- MODULE FindingLifecycle --------------------------
(***************************************************************************)
(* One finding, from its observations to its board card (components/       *)
(* findings and the board handlers of components/agents).  Scanners send   *)
(* FindingObserved; the record use case keeps the row of the single source *)
(* of truth and publishes FindingRaised; a handler files a card for it.  An*)
(* operator resolves, suppresses or reopens the finding, and a suppression *)
(* sends the card to the recycle bin.                                      *)
(*                                                                         *)
(* The row is read in one query and written whole in another.  Events are  *)
(* Celery messages: a handler that dies gets its message again, one that   *)
(* raises has lost it.  An observation handled again is an observation.    *)
(***************************************************************************)
EXTENDS Naturals, FiniteSets

CONSTANTS
    Observations,   \* FindingObserved handlers under way at once
    Operators,      \* status requests under way at once
    Filers,         \* FindingRaised board handlers under way at once
    NoId,           \* the id of a row that is not there
    MaxCards,       \* cards are not counted beyond this
    Faulty          \* handlers may die or raise, and publishing may fail

ASSUME ConstantsAssumption ==
    NoId \notin Observations /\ MaxCards \in Nat \ {0} /\ Faulty \in BOOLEAN

VARIABLES
    row,        \* the finding's row; severe: at or above the board's floor
    obs,        \* record use case: the row it has read; then the id it is to raise
    op,         \* status use case: the row it has read; then a suppression to publish
    raised,     \* the ids that FindingRaised messages to the board carry
    archiving,  \* FindingResolved("suppressed") is on its way to the board
    filer,      \* board handlers that have found no card: the id they file
    live,       \* cards on the board
    binned,     \* cards in the recycle bin
    lapses      \* history: what has gone wrong so far

vars == <<row, obs, op, raised, archiving, filer, live, binned, lapses>>

Terminal == {"resolved", "suppressed"}
Row      == [status : {"none", "open"} \cup Terminal, severe : BOOLEAN,
             id : Observations \cup {NoId}]
NoRow    == [status |-> "none", severe |-> FALSE, id |-> NoId]

Lapses ==
    { "torn",       \* a row was written over a change its writer had not read
      "twins",      \* two observations both took themselves for the first
      "unheard",    \* a change was recorded, but nobody was left to tell the board
      "crowd",      \* two board handlers were past the look-up together
      "unsent",     \* a suppression was recorded, but never reached the card
      "late" }      \* a card was filed for a finding that was not open any more

TypeOK ==
    /\ row \in Row
    /\ obs \in [Observations -> [at : {"idle", "read", "raising"}, entity : Row]]
    /\ op \in [Operators -> [at : {"idle", "read", "publishing"}, entity : Row]]
    /\ raised \subseteq Observations \cup {NoId}
    /\ archiving \in BOOLEAN
    /\ filer \in [Filers -> Observations \cup {NoId}]
    /\ live \in 0..MaxCards
    /\ binned \in 0..MaxCards
    /\ lapses \subseteq Lapses

Idle == [at |-> "idle", entity |-> NoRow]

Init ==
    /\ row = NoRow
    /\ obs = [o \in Observations |-> Idle]
    /\ op = [p \in Operators |-> Idle]
    /\ raised = {}
    /\ archiving = FALSE
    /\ filer = [f \in Filers |-> NoId]
    /\ live = 0
    /\ binned = 0
    /\ lapses = {}

Lapse(l, happened) == IF happened THEN {l} ELSE {}

-----------------------------------------------------------------------------
(* RecordObservedFindingUseCase *)

\* find_by_identity.
Observe(o) ==
    /\ obs[o].at = "idle"
    /\ obs' = [obs EXCEPT ![o] = [at |-> "read", entity |-> row]]
    /\ UNCHANGED <<row, op, raised, archiving, filer, live, binned, lapses>>

\* Faulty variant: the row keeps the OCSF name of the status.
ObservedNew(o, s) == [obs[o].entity EXCEPT !.status = "new", !.severe = s]

\* Faulty variant: every observation makes an entity of its own.
ObservedAnew(o, s) == [status |-> "open", severe |-> s, id |-> o]

\* The entity to write, of the severity that is observed: a new one with an id of its
\* own, or the one that was read, open again.
Observed(o, s) ==
    [status |-> "open", severe |-> s,
     id |-> IF obs[o].entity = NoRow THEN o ELSE obs[o].entity.id]

\* Faulty variants: a rise over the floor, a reopening is no news.
NewsButSeverity(o, s)  == obs[o].entity.status # "open"
NewsButReopening(o, s) == obs[o].entity = NoRow \/ obs[o].entity.severe # s

\* New, reopened, or of another severity: worth a FindingRaised.
News(o, s) == obs[o].entity.status # "open" \/ obs[o].entity.severe # s

\* update_or_create: a stored row keeps the id it was created with.
Upsert(r) == row' = IF row = NoRow THEN r ELSE [r EXCEPT !.id = row.id]

\* The event carries the id of the entity.
Record(o) ==
    /\ obs[o].at = "read"
    /\ \E s \in BOOLEAN :
        LET entity == Observed(o, s) IN
        /\ Upsert(entity)
        /\ obs' = [obs EXCEPT ![o] =
                    IF News(o, s) THEN [at |-> "raising", entity |-> [NoRow EXCEPT !.id = entity.id]]
                                  ELSE Idle]
    /\ lapses' = lapses \cup Lapse("torn", obs[o].entity # row)
                        \cup Lapse("twins", obs[o].entity = NoRow /\ row # NoRow)
    /\ UNCHANGED <<op, raised, archiving, filer, live, binned>>

Raise(o) ==
    /\ obs[o].at = "raising"
    /\ raised' = raised \cup {obs[o].entity.id}
    /\ obs' = [obs EXCEPT ![o] = Idle]
    /\ UNCHANGED <<row, op, archiving, filer, live, binned, lapses>>

\* The handler dies or raises.  Once the row is written the next observation finds
\* nothing new to tell.
ObserverStops(o) ==
    /\ Faulty
    /\ obs[o].at # "idle"
    /\ obs' = [obs EXCEPT ![o] = Idle]
    /\ lapses' = lapses \cup Lapse("unheard", obs[o].at = "raising")
    /\ UNCHANGED <<row, op, raised, archiving, filer, live, binned>>

-----------------------------------------------------------------------------
(* ChangeFindingStatusUseCase *)

Ask(p) ==
    /\ op[p].at = "idle"
    /\ row # NoRow
    /\ op' = [op EXCEPT ![p] = [at |-> "read", entity |-> row]]
    /\ UNCHANGED <<row, obs, raised, archiving, filer, live, binned, lapses>>

\* What is asked for is so already; or the request dies before it writes.
AskInVain(p) ==
    /\ op[p].at = "read"
    /\ op' = [op EXCEPT ![p] = Idle]
    /\ UNCHANGED <<row, obs, raised, archiving, filer, live, binned, lapses>>

\* Faulty variant: the event of a suppression is left out.
TellsBoardOfResolved(status) == status = "resolved"

\* _publish_terminal_transition.  Every terminal transition is published; the board
\* drops "resolved" at once (the card is proof of work).  A reopening is not.
TellsBoard(status) == status = "suppressed"

\* A suppression that brings a new reason is a change, too.
Change(p) ==
    /\ op[p].at = "read"
    /\ \E s \in {"open"} \cup Terminal :
        /\ s # op[p].entity.status \/ s = "suppressed"
        /\ Upsert([op[p].entity EXCEPT !.status = s])
        /\ op' = [op EXCEPT ![p] = [Idle EXCEPT !.at = IF TellsBoard(s) THEN "publishing" ELSE "idle"]]
    /\ lapses' = lapses \cup Lapse("torn", op[p].entity # row)
    /\ UNCHANGED <<obs, raised, archiving, filer, live, binned>>

Publish(p) ==
    /\ op[p].at = "publishing"
    /\ archiving' = TRUE
    /\ op' = [op EXCEPT ![p] = Idle]
    /\ UNCHANGED <<row, obs, raised, filer, live, binned, lapses>>

\* The request dies, or publishing fails and is logged.
PublishFails(p) ==
    /\ Faulty
    /\ op[p].at = "publishing"
    /\ op' = [op EXCEPT ![p] = Idle]
    /\ lapses' = lapses \cup {"unsent"}
    /\ UNCHANGED <<row, obs, raised, archiving, filer, live, binned>>

-----------------------------------------------------------------------------
(* The board handlers *)

\* Faulty variant: a card in the bin does not count.
HasCardOnBoard == live > 0

\* find_by_idempotency: in whatever state the card is.
HasCard == live + binned > 0

\* handle_finding_raised_board files a card: the id is a row's, at or above the floor,
\* and has no card.  It does not ask whether the finding is still open.
Files(i) == row.id = i /\ row.severe /\ ~HasCard

LookUp(f, i) ==
    /\ filer[f] = NoId
    /\ i \in raised
    /\ raised' = raised \ {i}
    /\ filer' = [filer EXCEPT ![f] = IF Files(i) THEN i ELSE NoId]
    /\ UNCHANGED <<row, obs, op, archiving, live, binned, lapses>>

Filing == {f \in Filers : filer[f] # NoId}

File(f) ==
    /\ f \in Filing
    /\ live' = IF live < MaxCards THEN live + 1 ELSE live
    /\ filer' = [filer EXCEPT ![f] = NoId]
    /\ lapses' = lapses \cup Lapse("crowd", Filing # {f})
                        \cup Lapse("late", row.status # "open")
    /\ UNCHANGED <<row, obs, op, raised, archiving, binned>>

\* It raises, which is logged and ends the task, or it dies and is redelivered.
FilerStops(f) ==
    /\ Faulty
    /\ f \in Filing
    /\ filer' = [filer EXCEPT ![f] = NoId]
    /\ \/ raised' = raised \cup {filer[f]} /\ UNCHANGED lapses
       \/ lapses' = lapses \cup {"unheard"} /\ UNCHANGED raised
    /\ UNCHANGED <<row, obs, op, archiving, live, binned>>

\* handle_finding_resolved_board trashes every card that is not archived yet.
Archive ==
    /\ archiving
    /\ archiving' = FALSE
    /\ live' = 0
    /\ binned' = IF live + binned > MaxCards THEN MaxCards ELSE live + binned
    /\ UNCHANGED <<row, obs, op, raised, filer, lapses>>

\* It raises, which is logged and ends the task.
ArchiveFails ==
    /\ Faulty
    /\ archiving
    /\ archiving' = FALSE
    /\ lapses' = lapses \cup {"unsent"}
    /\ UNCHANGED <<row, obs, op, raised, filer, live, binned>>

Next ==
    \/ \E o \in Observations : Observe(o) \/ Record(o) \/ Raise(o) \/ ObserverStops(o)
    \/ \E p \in Operators :
        Ask(p) \/ AskInVain(p) \/ Change(p) \/ Publish(p) \/ PublishFails(p)
    \/ \E f \in Filers : File(f) \/ FilerStops(f) \/ \E i \in Observations : LookUp(f, i)
    \/ Archive \/ ArchiveFails

Spec == Init /\ [][Next]_vars

-----------------------------------------------------------------------------
(* Properties *)

\* "The helper short-circuits if a Task with the same key exists": however often the
\* finding is raised, suppressed and reopened, it has one card, unless two handlers
\* were past the look-up together.
OneCard == "crowd" \notin lapses => live + binned <= 1

\* The board handler finds the row its event names ("re-observing never mutates the
\* PK of the matched row"), unless two observations both created it.
RaisedFindsTheRow ==
    "twins" \notin lapses =>
        /\ \A i \in raised : i = row.id
        /\ \A f \in Filing : filer[f] = row.id

\* A resolved or suppressed finding is open again only because an operator has asked
\* for it or with a FindingRaised to come, unless a change was overwritten unread.
NoQuietReopening ==
    [][row.status \in Terminal /\ row'.status = "open" /\ "torn" \notin lapses'
        => \/ \E p \in Operators : op[p].at = "read" /\ op'[p].at = "idle"
           \/ \E o \in Observations : obs[o].at = "read" /\ obs'[o].at = "raising"]_vars

\* Something is under way that will have the board look at this row.
NewsOnItsWay ==
    \/ row.id \in raised
    \/ Filing # {}
    \/ \E o \in Observations : obs[o].at = "raising"

\* An open finding at or above the floor has a card, on the board or in the bin, or
\* the news of it is under way, unless that was lost or the row overwritten unread.
FiledOrOnItsWay ==
    row.status = "open" /\ row.severe /\ lapses \cap {"unheard", "torn"} = {}
        => HasCard \/ NewsOnItsWay

\* "When a finding is suppressed its board card auto-archives": no card of it is on the
\* board unless its archiving is under way, or was lost, or the card was filed later.
\* (An operator who restores the card from the recycle bin is not modelled.)
BinnedOrOnItsWay ==
    row.status = "suppressed" /\ lapses \cap {"unsent", "late"} = {}
        => live = 0 \/ archiving \/ \E p \in Operators : op[p].at = "publishing"
=============================================================================
