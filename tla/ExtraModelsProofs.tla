--------------------------- MODULE ExtraModelsProofs ---------------------------
(***************************************************************************)
(* The keepers of models: a saved platform stands and no balance of        *)
(* another key is shown, the user's configuration stands; and of an answer *)
(* on its way back, tool calls are whole and results meet their calls.     *)
(***************************************************************************)
EXTENDS MCModels, FiniteSetTheorems, TLAPS

Detections == [form : Ids \cup {Draft}, target : Keys \cup Targets, request : Nat, probing : BOOLEAN]
Saves == {w \in [op : {"save"}, form : {Preset, Own, Draft}, as : Platforms] : w.as \in Forms(IdOf(w))}
Removals == [op : {"remove"}, form : {Own}, as : {None}]
Reporting == [op : {"report"}, of : Detections]
Writes == Saves \cup Removals \cup Reporting

ReportsOf == [platform : Ids \cup {Draft}, target : Keys \cup Targets, request : Nat,
              form : Ids \cup {Draft}]
Settings == [generation : Nat, reports : SUBSET ReportsOf, platforms : [Ids -> Platforms \cup {None}]]

\* A platform's target is one its form offers, and the preset is always there.
Fitting(platforms) ==
  /\ platforms[Preset] \in Platforms
  /\ \A i \in Ids : platforms[i] # None => platforms[i].target \in Offered(i)

DataOK ==
  /\ settings \in Settings /\ disk \in Settings
  /\ Fitting(settings.platforms)
  /\ writes \in Seq(Writes)
  /\ detecting \subseteq Detections
  /\ latest \in [Ids \cup {Draft} -> 0 .. MaxDetections]
  /\ balance \in [value : Keys \cup {None}, generation : Nat, refreshing : BOOLEAN]
  /\ asked \subseteq [generation : Nat, key : Keys]

Counts == [saves : Nat, drafts : Nat, detections : Nat, balances : Nat, launches : Nat, faults : Nat]
CountOK == count \in Counts /\ count.detections <= MaxDetections

\* What is being written differs from the settings by the write at the head of the chain alone.
NextIsHeads ==
  next # None =>
    /\ writes # <<>> /\ next \in Settings
    /\ Fitting(next.platforms)
    /\ next.platforms = IF Reports(Head(writes)) THEN settings.platforms
                        ELSE [settings.platforms EXCEPT ![IdOf(Head(writes))] = Head(writes).as]

\* A platform has one report.
OneReportEach(reports) == \A r, q \in reports : r.platform = q.platform => r = q
ReportsAreUnique ==
  /\ OneReportEach(settings.reports)
  /\ next # None => OneReportEach(next.reports)

\* Until the user's platform is made nothing is reported about it.
Makes(w) == w.op = "save" /\ w.form = Draft
NotMadeYet ==
  /\ \A k, l \in DOMAIN writes : Makes(writes[k]) /\ Makes(writes[l]) => k = l
  /\ count.drafts = 0 => \A k \in DOMAIN writes : ~Makes(writes[k])
  /\ count.drafts = 0 \/ (\E k \in DOMAIN writes : Makes(writes[k])) =>
       /\ settings.platforms[Own] = None
       /\ \A r \in settings.reports : r.platform # Own
       /\ \A d \in detecting : d.form # Own
       /\ \A k \in DOMAIN writes : Reports(writes[k]) => writes[k].of.form # Own
       /\ next # None /\ ~Makes(Head(writes)) =>
            next.platforms[Own] = None /\ \A r \in next.reports : r.platform # Own

\* The request of the present generation, the newest, was made with the saved key.
AskedWithSavedKey ==
  /\ balance.refreshing = (\E q \in asked : q.generation = balance.generation)
  /\ \A q \in asked :
       /\ q.generation <= balance.generation
       /\ q.generation = balance.generation => q.key = settings.platforms[Preset].target
       /\ \A r \in asked : r.generation = q.generation => r = q

IInv ==
  /\ DataOK /\ CountOK /\ NextIsHeads /\ ReportsAreUnique /\ NotMadeYet
  /\ SavedStands /\ AskedWithSavedKey /\ BalanceIsOfSavedKey

\* A write of the chain, and what its head and the rest of it are.
LEMMA AWrite ==
  ASSUME ExtraConstants, NEW w \in Writes
  PROVE  /\ Reports(w) => w \in Reporting /\ w.of \in Detections /\ ~Makes(w)
         /\ ~Reports(w) => IdOf(w) \in Ids
         /\ ~Reports(w) /\ IdOf(w) = Preset => w.as \in Platforms
         /\ ~Reports(w) => w.as \in Platforms \cup {None}
         /\ ~Reports(w) /\ w.as # None => w.as.target \in Offered(IdOf(w))
<1>1. CASE w \in Reporting
  BY <1>1 DEF Reporting, Reports, Makes
<1>2. CASE w \in Saves
  <2>1. w.op = "save" /\ w.form \in {Preset, Own, Draft} /\ w.as \in Forms(IdOf(w))
    BY <1>2 DEF Saves
  <2>2. w.as \in Platforms /\ w.as.target \in Offered(IdOf(w))
    BY <2>1, <1>2 DEF Saves, Forms
  <2>. QED
    BY <2>1, <2>2 DEF Reports, IdOf, Ids
<1>3. CASE w \in Removals
  BY <1>3 DEF Removals, Reports, IdOf, Ids, ExtraConstants
<1>. QED
  BY <1>1, <1>2, <1>3 DEF Writes

\* What is left of the chain after its first write has gone.
LEMMA RestOfWrites ==
  ASSUME NEW q \in Seq(Writes), q # <<>>
  PROVE  /\ Head(q) \in Writes /\ Head(q) = q[1] /\ 1 \in DOMAIN q
         /\ Tail(q) \in Seq(Writes)
         /\ \A k \in DOMAIN Tail(q) : k + 1 \in DOMAIN q /\ k + 1 # 1 /\ Tail(q)[k] = q[k + 1]
         /\ \A k, l \in DOMAIN Tail(q) : k + 1 = l + 1 => k = l
OBVIOUS

\* A write put at the end of the chain is the only new one.
LEMMA OneMoreWrite ==
  ASSUME NEW q \in Seq(Writes), NEW w \in Writes
  PROVE  /\ Append(q, w) \in Seq(Writes) /\ Append(q, w) # <<>>
         /\ q # <<>> => Head(Append(q, w)) = Head(q)
         /\ DOMAIN Append(q, w) = DOMAIN q \cup {Len(q) + 1}
         /\ Len(q) + 1 \notin DOMAIN q
         /\ \A k \in DOMAIN q : Append(q, w)[k] = q[k]
         /\ Append(q, w)[Len(q) + 1] = w
<1>1. DOMAIN q = 1 .. Len(q) /\ Len(q) \in Nat /\ Len(Append(q, w)) = Len(q) + 1
  OBVIOUS
<1>2. DOMAIN Append(q, w) = 1 .. Len(q) + 1
  BY <1>1
<1>3. Len(q) + 1 \notin DOMAIN q /\ DOMAIN Append(q, w) = DOMAIN q \cup {Len(q) + 1}
  BY <1>1, <1>2
<1>. QED
  BY <1>3

\* Of the counters only drafts and detections are used beside the bounds.
LEMMA CountsOn ==
  ASSUME CountOK, \/ count' = count
                  \/ count' = [count EXCEPT !.balances = @ + 1]
                  \/ count' = [count EXCEPT !.launches = @ + 1]
                  \/ count' = [count EXCEPT !.faults = @ + 1]
  PROVE  CountOK' /\ count'.drafts = count.drafts
BY DEF CountOK, Counts

\* The invariant holds when the manager starts.
LEMMA InitIInv == ASSUME ExtraConstants, Init PROVE IInv
<1>1. settings = [generation |-> 0, reports |-> {},
                  platforms |-> [i \in Ids |-> IF i = Own THEN None ELSE [target |-> None, enabled |-> FALSE]]]
  BY DEF Init
<1>2. [target |-> None, enabled |-> FALSE] \in Platforms
  BY DEF Platforms
<1>3. settings \in Settings /\ Fitting(settings.platforms) /\ settings.platforms[Own] = None
  BY <1>1, <1>2 DEF Settings, Fitting, Ids, ExtraConstants, Offered
<1>4. DataOK /\ CountOK
  BY <1>3 DEF DataOK, CountOK, Counts, Init, ExtraConstants
<1>5. NextIsHeads /\ ReportsAreUnique /\ NotMadeYet
  BY <1>1, <1>3 DEF NextIsHeads, ReportsAreUnique, NotMadeYet, OneReportEach, Init
<1>6. SavedStands /\ AskedWithSavedKey /\ BalanceIsOfSavedKey
  BY DEF SavedStands, AskedWithSavedKey, BalanceIsOfSavedKey, Init
<1>. QED
  BY <1>4, <1>5, <1>6 DEF IInv

\* What the chain and the settings hold is left as it is by a step that only appends a write that
\* reports nothing, and nothing of the detections.
LEMMA SaveKeeps == ASSUME ExtraConstants, IInv, Save PROVE IInv'
<1>. USE DEF IInv
<1>. DEFINE Queues(w) ==
              /\ w \in Saves \cup Removals
              /\ writes' = Append(writes, w)
              /\ Makes(w) => count.drafts = 0 /\ count'.drafts = 1
              /\ ~Makes(w) => count'.drafts = count.drafts
              /\ count' \in Counts
              /\ count'.detections = count.detections
<1>0. count \in Counts /\ count.detections <= MaxDetections
  BY DEF CountOK
<1>1. PICK w \in Saves \cup Removals : Queues(w)
  <2>1. ASSUME NEW p \in Forms(Own), count.drafts = 0, count' = [count EXCEPT !.drafts = 1],
               writes' = Append(writes, [op |-> "save", form |-> Draft, as |-> p])
        PROVE  Queues([op |-> "save", form |-> Draft, as |-> p])
    <3>1. [op |-> "save", form |-> Draft, as |-> p] \in Saves
      BY DEF Saves, IdOf, Forms, Platforms, Offered, Ids, ExtraConstants
    <3>2. count' \in Counts /\ count'.detections = count.detections /\ count'.drafts = 1
      BY <1>0, <2>1 DEF Counts
    <3>. QED
      BY <2>1, <3>1, <3>2 DEF Makes
  <2>2. ASSUME NEW f \in {Preset, Own}, NEW p \in Forms(f), count' = [count EXCEPT !.saves = @ + 1],
               writes' = Append(writes, [op |-> "save", form |-> f, as |-> p])
        PROVE  Queues([op |-> "save", form |-> f, as |-> p])
    <3>1. [op |-> "save", form |-> f, as |-> p] \in Saves /\ f # Draft
      <4>1. f # Draft
        BY DEF Offered, Ids, ExtraConstants
      <4>2. [op |-> "save", form |-> f, as |-> p] \in Saves
        BY DEF Saves, IdOf, Forms, Platforms, Offered, Ids, ExtraConstants
      <4>. QED
        BY <4>1, <4>2
    <3>2. count' \in Counts
      <4>1. count \in Counts /\ count.saves + 1 \in Nat /\ count' = [count EXCEPT !.saves = count.saves + 1]
        BY <1>0, <2>2 DEF Counts
      <4>. QED
        BY <4>1 DEF Counts
    <3>3. count'.detections = count.detections /\ count'.drafts = count.drafts
      BY <1>0, <2>2 DEF Counts
    <3>. QED
      BY <2>2, <3>1, <3>2, <3>3 DEF Makes
  <2>3. ASSUME count' = [count EXCEPT !.saves = @ + 1],
               writes' = Append(writes, [op |-> "remove", form |-> Own, as |-> None])
        PROVE  Queues([op |-> "remove", form |-> Own, as |-> None])
    <3>1. [op |-> "remove", form |-> Own, as |-> None] \in Removals
      BY DEF Removals
    <3>2. count' \in Counts /\ count'.detections = count.detections /\ count'.drafts = count.drafts
      BY <1>0, <2>3 DEF Counts
    <3>. QED
      BY <2>3, <3>1, <3>2 DEF Makes
  <2>4. \E w \in Saves \cup Removals : Queues(w)
    BY <2>1, <2>2, <2>3 DEF Save
  <2>. QED
    BY <2>4
<1>2. UNCHANGED <<settings, disk, next, acked, latest, detecting, balance, asked>>
  BY DEF Save, stored, money
<1>3. w \in Writes /\ ~Reports(w)
  BY DEF Writes, Saves, Removals, Reports
<1>4. /\ writes' \in Seq(Writes) /\ writes' # <<>>
      /\ writes # <<>> => Head(writes') = Head(writes)
      /\ DOMAIN writes' = DOMAIN writes \cup {Len(writes) + 1}
      /\ Len(writes) + 1 \notin DOMAIN writes
      /\ \A k \in DOMAIN writes : writes'[k] = writes[k]
      /\ writes'[Len(writes) + 1] = w
  BY <1>1, <1>3, OneMoreWrite DEF DataOK
<1>5. DataOK' /\ CountOK'
  BY <1>0, <1>1, <1>2, <1>4 DEF DataOK, CountOK, Fitting
<1>6. NextIsHeads' /\ ReportsAreUnique'
  BY <1>2, <1>4 DEF NextIsHeads, ReportsAreUnique, Fitting, OneReportEach
<1>7. NotMadeYet'
  <2>0. next # None => Head(writes') = Head(writes)
    BY <1>4 DEF NextIsHeads
  <2>1. CASE Makes(w)
    BY <2>0, <2>1, <1>1, <1>2, <1>3, <1>4 DEF NotMadeYet
  <2>2. CASE ~Makes(w)
    BY <2>0, <2>2, <1>1, <1>2, <1>3, <1>4 DEF NotMadeYet
  <2>. QED
    BY <2>1, <2>2
<1>8. SavedStands' /\ AskedWithSavedKey' /\ BalanceIsOfSavedKey'
  BY <1>2 DEF SavedStands, AskedWithSavedKey, BalanceIsOfSavedKey
<1>. QED
  BY <1>5, <1>6, <1>7, <1>8

\* The new settings of a write that is not a report.
LEMMA ReplacedSettings ==
  ASSUME ExtraConstants, IInv, writes # <<>>, ~Reports(Head(writes))
  PROVE  LET w == Head(writes)
             n == Replaced(w)
         IN /\ n \in Settings /\ Fitting(n.platforms) /\ OneReportEach(n.reports)
            /\ n.platforms = [settings.platforms EXCEPT ![IdOf(w)] = w.as]
<1>. DEFINE w == Head(writes)
            n == Replaced(w)
            moved(r) == IF w.form = Draft /\ r.platform = Draft /\ SameTarget(r, w.as)
                          THEN [r EXCEPT !.platform = Own] ELSE r
<1>. USE DEF IInv
<1>1. w \in Writes /\ w = writes[1] /\ 1 \in DOMAIN writes
  BY RestOfWrites DEF DataOK
<1>2. /\ IdOf(w) \in Ids /\ w.as \in Platforms \cup {None}
      /\ IdOf(w) = Preset => w.as \in Platforms
      /\ w.as # None => w.as.target \in Offered(IdOf(w))
  BY <1>1, AWrite
<1>3. settings \in Settings
  BY DEF DataOK
<1>4. n = [generation |-> settings.generation + 1, platforms |-> [settings.platforms EXCEPT ![IdOf(w)] = w.as],
           reports |-> {moved(r) : r \in settings.reports}]
  BY DEF Replaced
<1>5. \A r \in settings.reports :
        /\ moved(r) \in ReportsOf
        /\ moved(r) = r \/ (w.form = Draft /\ r.platform = Draft /\ moved(r).platform = Own)
  BY <1>3 DEF Settings, ReportsOf, Ids
<1>. HIDE DEF n, moved
<1>6. n \in Settings
  BY <1>2, <1>3, <1>4, <1>5 DEF Settings
<1>7. Fitting(n.platforms)
  BY <1>2, <1>3, <1>4 DEF Fitting, DataOK, Settings, Ids
<1>8. OneReportEach(n.reports)
  <2>1. CASE w.form = Draft
    <3>1. Makes(w)
      BY <2>1, <1>1 DEF Writes, Saves, Removals, Reporting, Makes, Reports, ExtraConstants, Ids
    <3>2. \A r \in settings.reports : r.platform # Own
      BY <3>1, <1>1 DEF NotMadeYet
    <3>3. \A r, q \in settings.reports : moved(r).platform = moved(q).platform => r = q
      <4>1. \A r, q \in settings.reports : r.platform = q.platform => r = q
        BY DEF ReportsAreUnique, OneReportEach
      <4>. QED
        BY <4>1, <1>5, <3>2
    <3>. QED
      BY <3>3, <1>4 DEF OneReportEach
  <2>2. CASE w.form # Draft
    <3>1. n.reports = settings.reports
      BY <2>2, <1>4, <1>5
    <3>. QED
      BY <3>1 DEF ReportsAreUnique, OneReportEach
  <2>. QED
    BY <2>1, <2>2
<1>. QED
  BY <1>4, <1>6, <1>7, <1>8 DEF n

\* The new settings of a report.
LEMMA ReportedSettings ==
  ASSUME ExtraConstants, IInv, writes # <<>>, Reports(Head(writes))
  PROVE  LET n == Reported(Head(writes).of)
         IN /\ n \in Settings /\ OneReportEach(n.reports)
            /\ n.platforms = settings.platforms
            /\ \A r \in n.reports : r \in settings.reports \/ r.platform = Matching(Head(writes).of)
            /\ Matching(Head(writes).of) = Own => Head(writes).of.form = Own \/ settings.platforms[Own] # None
<1>. DEFINE d == Head(writes).of
            n == Reported(d)
<1>. USE DEF IInv
<1>1. d \in Detections
  BY RestOfWrites, AWrite DEF DataOK
<1>2. Matching(d) \in Ids \cup {Draft}
  BY <1>1 DEF Matching, Detections, Ids
<1>3. Report(d, Matching(d)) \in ReportsOf /\ Report(d, Matching(d)).platform = Matching(d)
  BY <1>1, <1>2 DEF Report, ReportsOf, Detections
<1>4. settings \in Settings
  BY DEF DataOK
<1>. DEFINE others == {r \in settings.reports : r.platform # Matching(d)} \cup {Report(d, Matching(d))}
<1>5. n = [settings EXCEPT !.reports = others]
  BY DEF Reported
<1>6. others \in SUBSET ReportsOf
  BY <1>3, <1>4 DEF Settings
<1>. HIDE DEF n, others
<1>9. n \in Settings /\ n.reports = others /\ n.platforms = settings.platforms
  BY <1>4, <1>5, <1>6 DEF Settings
<1>7. OneReportEach(n.reports)
  BY <1>3, <1>9 DEF OneReportEach, ReportsAreUnique, others
<1>8. Matching(d) = Own => d.form = Own \/ settings.platforms[Own] # None
  BY DEF Matching, ExtraConstants, Ids
<1>. QED
  BY <1>3, <1>7, <1>8, <1>9 DEF n, others

\* The write at the head of the chain computes what it is going to write.
LEMMA BeginKeeps == ASSUME ExtraConstants, IInv, Begin PROVE IInv'
<1>. USE DEF IInv
<1>1. UNCHANGED <<settings, disk, writes, acked, latest, detecting, balance, asked, count>>
  BY DEF Begin, money
<1>2. writes # <<>> /\ next' # None =>
        /\ next' \in Settings /\ Fitting(next'.platforms) /\ OneReportEach(next'.reports)
        /\ next'.platforms = IF Reports(Head(writes)) THEN settings.platforms
                              ELSE [settings.platforms EXCEPT ![IdOf(Head(writes))] = Head(writes).as]
  <2>1. CASE Reports(Head(writes)) /\ writes # <<>> /\ next' = Reported(Head(writes).of)
    BY <2>1, ReportedSettings DEF DataOK
  <2>2. CASE ~Reports(Head(writes)) /\ writes # <<>> /\ next' = Replaced(Head(writes))
    BY <2>2, ReplacedSettings
  <2>. QED
    BY <2>1, <2>2 DEF Begin
<1>3. writes # <<>>
  BY DEF Begin
<1>4. DataOK' /\ CountOK' /\ SavedStands' /\ AskedWithSavedKey' /\ BalanceIsOfSavedKey'
  BY <1>1 DEF DataOK, CountOK, Fitting, SavedStands, AskedWithSavedKey, BalanceIsOfSavedKey
<1>5. NextIsHeads' /\ ReportsAreUnique'
  BY <1>1, <1>2, <1>3 DEF NextIsHeads, ReportsAreUnique, Fitting, OneReportEach
<1>6. ASSUME settings.platforms[Own] = None, \A r \in settings.reports : r.platform # Own,
             \A k \in DOMAIN writes : Reports(writes[k]) => writes[k].of.form # Own,
             ~Makes(Head(writes))
      PROVE  next'.platforms[Own] = None /\ \A r \in next'.reports : r.platform # Own
  <2>0. Head(writes) = writes[1] /\ 1 \in DOMAIN writes /\ Head(writes) \in Writes
    BY <1>3, RestOfWrites DEF DataOK
  <2>1. CASE Reports(Head(writes)) /\ next' = Reported(Head(writes).of)
    BY <1>3, <1>6, <2>0, <2>1, ReportedSettings
  <2>2. CASE ~Reports(Head(writes)) /\ ~Refused(Head(writes)) /\ next' = Replaced(Head(writes))
    <3>1. IdOf(Head(writes)) = Preset /\ Head(writes).form = Preset
      BY <1>6, <2>0, <2>2 DEF Writes, Saves, Removals, Reporting, Reports, Refused, Makes, IdOf, Ids
    <3>2. next'.reports = settings.reports
      BY <2>2, <3>1 DEF Replaced, ExtraConstants, Ids
    <3>. QED
      BY <1>6, <2>2, <3>1, <3>2 DEF Replaced, ExtraConstants, Settings, DataOK, Ids
  <2>. QED
    BY <2>1, <2>2 DEF Begin
<1>7. NotMadeYet'
  BY <1>1, <1>6 DEF NotMadeYet
<1>. QED
  BY <1>4, <1>5, <1>7

\* The head of the chain is done with: the settings stay, or become what was being written.
LEMMA ShorterChain ==
  ASSUME ExtraConstants, IInv, writes # <<>>, writes' = Tail(writes), next' = None,
         detecting' \subseteq detecting, count'.drafts = count.drafts,
         \/ UNCHANGED settings
         \/ next # None /\ settings' = next
  PROVE  NotMadeYet'
<1>. USE DEF IInv
<1>1. /\ 1 \in DOMAIN writes /\ Head(writes) = writes[1] /\ Head(writes) \in Writes
      /\ \A k \in DOMAIN writes' : k + 1 \in DOMAIN writes /\ k + 1 # 1 /\ writes'[k] = writes[k + 1]
      /\ \A k, l \in DOMAIN writes' : k + 1 = l + 1 => k = l
  BY RestOfWrites DEF DataOK
<1>2. \A k, l \in DOMAIN writes' : Makes(writes'[k]) /\ Makes(writes'[l]) => k = l
  BY <1>1 DEF NotMadeYet
<1>3. count'.drafts = 0 => \A k \in DOMAIN writes' : ~Makes(writes'[k])
  BY <1>1 DEF NotMadeYet
<1>4. SUFFICES ASSUME count'.drafts = 0 \/ \E k \in DOMAIN writes' : Makes(writes'[k])
               PROVE  /\ settings'.platforms[Own] = None
                      /\ \A r \in settings'.reports : r.platform # Own
                      /\ \A d \in detecting' : d.form # Own
                      /\ \A k \in DOMAIN writes' : Reports(writes'[k]) => writes'[k].of.form # Own
  BY <1>2, <1>3 DEF NotMadeYet
<1>5. count.drafts = 0 \/ \E k \in DOMAIN writes : Makes(writes[k])
  BY <1>1, <1>4
<1>6. /\ settings.platforms[Own] = None
      /\ \A r \in settings.reports : r.platform # Own
      /\ \A d \in detecting : d.form # Own
      /\ \A k \in DOMAIN writes : Reports(writes[k]) => writes[k].of.form # Own
      /\ next # None /\ ~Makes(Head(writes)) =>
           next.platforms[Own] = None /\ \A r \in next.reports : r.platform # Own
  BY <1>5 DEF NotMadeYet
<1>7. ~Makes(Head(writes))
  BY <1>1, <1>4 DEF NotMadeYet
<1>. QED
  BY <1>1, <1>6, <1>7

\* A write that has nothing to write leaves the chain.
LEMMA DropKeeps == ASSUME ExtraConstants, IInv, Drop PROVE IInv'
<1>. USE DEF IInv
<1>1. /\ UNCHANGED <<settings, disk, next, acked, latest, balance, asked, count>>
      /\ writes # <<>> /\ writes' = Tail(writes) /\ next = None /\ detecting' \subseteq detecting
  BY DEF Drop, stored, money, Ended
<1>2. DataOK' /\ CountOK'
  BY <1>1, RestOfWrites, CountsOn DEF DataOK, Fitting
<1>3. NotMadeYet'
  BY <1>1, ShorterChain
<1>. QED
  BY <1>1, <1>2, <1>3 DEF NextIsHeads, ReportsAreUnique, OneReportEach, SavedStands, AskedWithSavedKey,
     BalanceIsOfSavedKey

\* A failing write leaves memory and file as they were.
LEMMA PersistFailsKeeps == ASSUME ExtraConstants, IInv, PersistFails PROVE IInv'
<1>. USE DEF IInv
<1>1. /\ UNCHANGED <<settings, disk, acked, latest, balance, asked>>
      /\ writes' = Tail(writes) /\ next # None /\ next' = None /\ detecting' \subseteq detecting
      /\ count' = [count EXCEPT !.faults = @ + 1]
  BY DEF PersistFails, money, Ended, Faulty
<1>2. writes # <<>>
  BY <1>1 DEF NextIsHeads
<1>3. DataOK' /\ CountOK'
  BY <1>1, <1>2, RestOfWrites, CountsOn DEF DataOK, Fitting
<1>4. NotMadeYet'
  BY <1>1, <1>2, CountsOn, ShorterChain
<1>. QED
  BY <1>1, <1>3, <1>4 DEF NextIsHeads, ReportsAreUnique, OneReportEach, SavedStands, AskedWithSavedKey,
     BalanceIsOfSavedKey

\* What was written is what memory holds, and a new key forgets the balance.
LEMMA PersistKeeps == ASSUME ExtraConstants, IInv, Persist PROVE IInv'
<1>. USE DEF IInv
<1>1. /\ UNCHANGED <<latest, asked, count>>
      /\ writes' = Tail(writes) /\ next # None /\ next' = None /\ detecting' \subseteq detecting
      /\ settings' = next /\ disk' = next
      /\ acked' = IF Reports(Head(writes)) THEN acked
                  ELSE [acked EXCEPT ![IdOf(Head(writes))] = Head(writes).as]
      /\ balance' = IF next.platforms[Preset].target # settings.platforms[Preset].target
                      THEN Cleared ELSE balance
  BY DEF Persist, Ended
<1>2. writes # <<>> /\ next \in Settings /\ Fitting(next.platforms)
  BY <1>1 DEF NextIsHeads
<1>3. balance' \in [value : Keys \cup {None}, generation : Nat, refreshing : BOOLEAN]
  BY <1>1 DEF DataOK, Cleared
<1>4. DataOK' /\ CountOK'
  BY <1>1, <1>2, <1>3, RestOfWrites, CountsOn DEF DataOK, Fitting
<1>5. NotMadeYet'
  BY <1>1, <1>2, ShorterChain
<1>6. SavedStands'
  BY <1>1, <1>2 DEF SavedStands, NextIsHeads
<1>7. NextIsHeads' /\ ReportsAreUnique'
  BY <1>1 DEF NextIsHeads, ReportsAreUnique, OneReportEach
<1>8. AskedWithSavedKey' /\ BalanceIsOfSavedKey'
  <2>1. CASE next.platforms[Preset].target # settings.platforms[Preset].target
    <3>1. balance' = [value |-> None, generation |-> balance.generation + 1, refreshing |-> FALSE]
      BY <1>1, <2>1 DEF Cleared
    <3>2. \A q \in asked : q.generation \in Nat /\ q.generation <= balance.generation
      BY DEF DataOK, AskedWithSavedKey
    <3>3. balance.generation \in Nat
      BY DEF DataOK
    <3>4. \A q \in asked : q.generation <= balance'.generation /\ q.generation # balance'.generation
      BY <3>1, <3>2, <3>3
    <3>5. balance'.refreshing = FALSE /\ ~ \E q \in asked : q.generation = balance'.generation
      BY <3>1, <3>4
    <3>6. \A q, r \in asked : r.generation = q.generation => r = q
      BY DEF AskedWithSavedKey
    <3>7. asked' = asked /\ balance'.refreshing = (\E q \in asked' : q.generation = balance'.generation)
      BY <1>1, <3>5
    <3>8. AskedWithSavedKey'
      BY <3>4, <3>6, <3>7 DEF AskedWithSavedKey
    <3>9. BalanceIsOfSavedKey'
      BY <3>1 DEF BalanceIsOfSavedKey
    <3>. QED
      BY <3>8, <3>9
  <2>2. CASE next.platforms[Preset].target = settings.platforms[Preset].target
    BY <1>1, <2>2 DEF AskedWithSavedKey, BalanceIsOfSavedKey
  <2>. QED
    BY <2>1, <2>2
<1>. QED
  BY <1>4, <1>5, <1>6, <1>7, <1>8

\* A detection carries the number of its request.
LEMMA DetectKeeps == ASSUME ExtraConstants, IInv, Detect PROVE IInv'
<1>. USE DEF IInv
<1>0. /\ UNCHANGED <<settings, disk, next, acked, writes, balance, asked>>
      /\ count.detections < MaxDetections /\ count' = [count EXCEPT !.detections = @ + 1]
  BY DEF Detect, stored, money
<1>. DEFINE d(f, t) == [form |-> f, target |-> t, request |-> count.detections + 1, probing |-> TRUE]
<1>1. PICK f \in {Preset, Own, Draft}, t \in Keys \cup Targets :
        /\ f = Own => settings.platforms[Own] # None
        /\ latest' = [latest EXCEPT ![f] = count.detections + 1]
        /\ detecting' = detecting \cup {d(f, t)}
  BY DEF Detect, Offered
<1>2. /\ count.detections \in Nat /\ count'.detections = count.detections + 1 /\ MaxDetections \in Nat
      /\ count'.drafts = count.drafts /\ CountOK'
  BY <1>0 DEF CountOK, Counts, ExtraConstants
<1>3. DataOK'
  <2>1. d(f, t) \in Detections
    BY <1>2 DEF Detections, Ids
  <2>3. count.detections + 1 \in 0 .. MaxDetections
    BY <1>0, <1>2
  <2>2. latest' \in [Ids \cup {Draft} -> 0 .. MaxDetections] /\ detecting' \subseteq Detections
    BY <1>1, <2>1, <2>3 DEF DataOK, Ids
  <2>. QED
    BY <1>0, <1>2, <2>2 DEF DataOK, Fitting
<1>4. NotMadeYet'
  BY <1>0, <1>1, <1>2 DEF NotMadeYet
<1>. QED
  BY <1>0, <1>2, <1>3, <1>4 DEF NextIsHeads, Fitting, ReportsAreUnique, OneReportEach, SavedStands, AskedWithSavedKey,
     BalanceIsOfSavedKey

\* The report of a detection joins the chain.
LEMMA ProbedKeeps == ASSUME ExtraConstants, IInv, Probed PROVE IInv'
<1>. USE DEF IInv
<1>0. UNCHANGED <<settings, disk, next, acked, latest, balance, asked, count>>
  BY DEF Probed, stored, money
<1>1. PICK d \in detecting :
        /\ detecting' = (detecting \ {d}) \cup {[d EXCEPT !.probing = FALSE]}
        /\ writes' = Append(writes, [op |-> "report", of |-> [d EXCEPT !.probing = FALSE]])
  BY DEF Probed
<1>. DEFINE e == [d EXCEPT !.probing = FALSE]
            w == [op |-> "report", of |-> e]
<1>2. e \in Detections /\ e.form = d.form
  BY DEF Detections, DataOK
<1>3. w \in Writes /\ w.of = e /\ ~Makes(w)
  BY <1>2 DEF Writes, Reporting, Makes
<1>. HIDE DEF e, w
<1>4. /\ writes' \in Seq(Writes) /\ writes' # <<>>
      /\ writes # <<>> => Head(writes') = Head(writes)
      /\ DOMAIN writes' = DOMAIN writes \cup {Len(writes) + 1}
      /\ \A k \in DOMAIN writes : writes'[k] = writes[k]
      /\ writes'[Len(writes) + 1] = w
  BY <1>1, <1>3, OneMoreWrite DEF DataOK, e, w
<1>5. DataOK'
  <2>. detecting' \subseteq Detections
    BY <1>1, <1>2 DEF e, DataOK
  <2>. QED
    BY <1>0, <1>4 DEF DataOK, Fitting
<1>6. NextIsHeads'
  BY <1>0, <1>4 DEF NextIsHeads, Fitting
<1>7. NotMadeYet'
  <2>0. next # None => Head(writes') = Head(writes)
    BY <1>4 DEF NextIsHeads
  <2>1. detecting' = (detecting \ {d}) \cup {e}
    BY <1>1 DEF e
  <2>. QED
    BY <2>0, <2>1, <1>0, <1>2, <1>3, <1>4 DEF NotMadeYet
<1>. QED
  BY <1>0, <1>5, <1>6, <1>7, CountsOn DEF ReportsAreUnique, OneReportEach, SavedStands, AskedWithSavedKey,
     BalanceIsOfSavedKey

\* A balance is asked for with the key that is saved.
LEMMA RefreshBalanceKeeps == ASSUME ExtraConstants, IInv, RefreshBalance PROVE IInv'
<1>. USE DEF IInv
<1>. DEFINE q == [generation |-> balance.generation + 1, key |-> settings.platforms[Preset].target]
<1>1. /\ UNCHANGED <<settings, disk, next, acked, writes, latest, detecting>>
      /\ count' = [count EXCEPT !.balances = @ + 1]
      /\ settings.platforms[Preset].target # None
      /\ asked' = asked \cup {q}
  BY DEF RefreshBalance, stored
<1>2. balance.generation \in Nat /\ \A r \in asked : r.generation \in Nat /\ r.generation <= balance.generation
  BY DEF DataOK, AskedWithSavedKey
<1>3. /\ balance' \in [value : Keys \cup {None}, generation : Nat, refreshing : BOOLEAN]
      /\ balance'.value = balance.value /\ balance'.generation = balance.generation + 1
      /\ balance'.refreshing
  <2>1. balance' = [value |-> balance.value, generation |-> balance.generation + 1, refreshing |-> TRUE]
    BY ZenonT(30) DEF RefreshBalance, DataOK
  <2>. QED
    BY <1>2, <2>1 DEF DataOK
<1>4. settings.platforms[Preset].target \in Keys
  BY <1>1 DEF DataOK, Fitting, Offered, Ids, ExtraConstants
<1>5. DataOK'
  BY <1>1, <1>2, <1>3, <1>4 DEF DataOK, Fitting
<1>6. NotMadeYet' /\ CountOK'
  BY <1>1, CountsOn DEF NotMadeYet
<1>7. AskedWithSavedKey' /\ BalanceIsOfSavedKey'
  <2>1. q.generation = balance'.generation /\ \A r \in asked : r.generation < q.generation
    BY <1>2, <1>3
  <2>2. \E r \in asked' : r.generation = balance'.generation
    BY <1>1, <2>1
  <2>. QED
    BY <1>1, <1>2, <1>3, <2>1, <2>2 DEF AskedWithSavedKey, BalanceIsOfSavedKey
<1>. QED
  BY <1>1, <1>5, <1>6, <1>7 DEF NextIsHeads, Fitting, ReportsAreUnique, OneReportEach, SavedStands

\* An answer of the present generation was asked for with the saved key.
LEMMA BalanceAnswerKeeps == ASSUME ExtraConstants, IInv, BalanceAnswer PROVE IInv'
<1>. USE DEF IInv
<1>0. /\ UNCHANGED <<settings, disk, next, acked, writes, latest, detecting>>
      /\ count' = count \/ count' = [count EXCEPT !.faults = @ + 1]
  BY DEF BalanceAnswer, stored, Faulty
<1>1. PICK q \in asked :
        /\ asked' = asked \ {q}
        /\ balance' \in {Answered(q), IF q.generation = balance.generation
                                        THEN [balance EXCEPT !.refreshing = FALSE] ELSE balance}
  BY DEF BalanceAnswer
<1>2. q.key \in Keys /\ (q.generation = balance.generation => q.key = settings.platforms[Preset].target)
  BY DEF DataOK, AskedWithSavedKey
<1>3. /\ balance' \in [value : Keys \cup {None}, generation : Nat, refreshing : BOOLEAN]
      /\ balance'.generation = balance.generation
      /\ balance'.refreshing = IF q.generation = balance.generation THEN FALSE ELSE balance.refreshing
      /\ \/ balance'.value = balance.value
         \/ q.generation = balance.generation /\ balance'.value = q.key
  <2>1. CASE q.generation # balance.generation
    BY <1>1, <2>1 DEF Answered, DataOK
  <2>2. CASE q.generation = balance.generation /\ balance' = [balance EXCEPT !.refreshing = FALSE]
    BY <2>2 DEF DataOK
  <2>3. CASE q.generation = balance.generation /\ balance' = [balance EXCEPT !.value = q.key, !.refreshing = FALSE]
    <3>1. balance' = [value |-> q.key, generation |-> balance.generation, refreshing |-> FALSE]
      BY <2>3, ZenonT(30) DEF DataOK
    <3>. QED
      BY <1>2, <2>3, <3>1 DEF DataOK
  <2>. QED
    BY <1>1, <2>1, <2>2, <2>3 DEF Answered
<1>4. DataOK'
  BY <1>0, <1>1, <1>3 DEF DataOK, Fitting
<1>5. NotMadeYet' /\ CountOK'
  BY <1>0, CountsOn DEF NotMadeYet
<1>6. AskedWithSavedKey'
  BY <1>0, <1>1, <1>3 DEF AskedWithSavedKey
<1>7. BalanceIsOfSavedKey'
  BY <1>0, <1>2, <1>3 DEF BalanceIsOfSavedKey
<1>. QED
  BY <1>0, <1>4, <1>5, <1>6, <1>7 DEF NextIsHeads, Fitting, ReportsAreUnique, OneReportEach, SavedStands

\* A launch and the mark after it leave all of this alone.
LEMMA LaunchKeeps == ASSUME ExtraConstants, IInv, WriteRuntimeCatalog \/ MarkRestarted PROVE IInv'
<1>. USE DEF IInv
<1>1. /\ UNCHANGED <<settings, disk, next, acked, writes, latest, detecting, balance, asked>>
      /\ \/ count' = count
         \/ count' = [count EXCEPT !.launches = @ + 1]
         \/ count' = [count EXCEPT !.faults = @ + 1]
  BY DEF WriteRuntimeCatalog, MarkRestarted, stored, money, Faulty
<1>2. DataOK'
  BY <1>1 DEF DataOK, Fitting
<1>3. NotMadeYet' /\ CountOK'
  BY <1>1, CountsOn DEF NotMadeYet
<1>. QED
  BY <1>1, <1>2, <1>3 DEF NextIsHeads, Fitting, ReportsAreUnique, OneReportEach, SavedStands, AskedWithSavedKey,
     BalanceIsOfSavedKey

\* A step that changes nothing keeps the invariant.
LEMMA StutterKeeps == IInv /\ UNCHANGED vars => IInv'
BY DEF IInv, vars, DataOK, CountOK, NextIsHeads, Fitting, ReportsAreUnique, OneReportEach, NotMadeYet, SavedStands,
   AskedWithSavedKey, BalanceIsOfSavedKey

\* The named type invariant of the module follows from the strengthened one.
LEMMA TypesFollow == ASSUME ExtraConstants, IInv PROVE TypeOK
<1>. USE DEF IInv
<1>1. settings.platforms \in [Ids -> Platforms \cup {None}] /\ settings.platforms[Preset] # None
  BY DEF DataOK, Settings, Fitting, ExtraConstants
<1>2. ASSUME NEW i \in Ids
      PROVE  Cardinality({r \in settings.reports : r.platform = i}) <= 1
  <2>. DEFINE R == {r \in settings.reports : r.platform = i}
  <2>1. CASE R = {}
    BY <2>1, FS_EmptySet
  <2>2. CASE R # {}
    <3>0. \A r, q \in R : r = q
      BY DEF ReportsAreUnique, OneReportEach
    <3>1. PICK r \in R : R = {r}
      BY <2>2, <3>0
    <3>. HIDE DEF R
    <3>2. Cardinality(R) = 1
      BY <3>1, FS_Singleton
    <3>. QED
      BY <3>2 DEF R
  <2>. QED
    BY <2>1, <2>2
<1>. QED
  BY <1>1, <1>2 DEF TypeOK, DataOK, Fitting, NextIsHeads, AskedWithSavedKey

\* The strengthened invariant is inductive.
THEOREM ExtraModelsInvariant == ASSUME ExtraConstants PROVE Spec => []IInv
<1>1. Init => IInv
  BY InitIInv
<1>2. IInv /\ [Next]_vars => IInv'
  BY SaveKeeps, BeginKeeps, DropKeeps, PersistKeeps, PersistFailsKeeps, DetectKeeps, ProbedKeeps,
     RefreshBalanceKeeps, BalanceAnswerKeeps, LaunchKeeps, StutterKeeps DEF Next
<1>. QED
  BY <1>1, <1>2, PTL DEF Spec

\* Every variable keeps its type, and a platform has one report.
THEOREM ExtraModelsTypeCorrect == ASSUME ExtraConstants PROVE Spec => []TypeOK
BY ExtraModelsInvariant, TypesFollow, PTL

\* Whatever detections report and whichever writes fail, what was acknowledged about a platform
\* stands in memory and on disk.
THEOREM SavedPlatformsStand == ASSUME ExtraConstants PROVE Spec => []SavedStands
BY ExtraModelsInvariant, PTL DEF IInv

\* The balance shown is one of the saved key, however late the answers for earlier keys come.
THEOREM NoForeignBalance == ASSUME ExtraConstants PROVE Spec => []BalanceIsOfSavedKey
BY ExtraModelsInvariant, PTL DEF IInv

\* A saved platform stands, and no balance of another key is shown beside it.
THEOREM SavedIsShown == ASSUME ExtraConstants PROVE Spec => []PlatformsStand
BY ExtraModelsTypeCorrect, SavedPlatformsStand, NoForeignBalance, PTL DEF PlatformsStand

-----------------------------------------------------------------------------
(* The tool bridge (ToolBridge): what Codex has been told of a call, what  *)
(* the translator holds of it and what the platform has written agree.     *)

Inputs    == {"inputDelta", "inputDone"}
RawEvents == {"rawAdded", "rawDelta", "rawDone", "rawItem"}
OfCall    == {"added", "item"} \cup Inputs \cup RawEvents
Ending    == {"translationFailed", "brokenOff", "completed", "incomplete", "failed"}
BridgeEvents == [type : OfCall \cup Ending, item : Calls \cup SUBSET Calls, n : Nat]
CallStates == [at : {"none", "added", "whole", "item"}, announced : BOOLEAN, n : 0 .. 1]
HeldCalls  == [known : BOOLEAN, n : Nat, emitted : BOOLEAN]

Came(k, cs) == cs[k].at # "none" \/ cs[k].n > 0
\* What Codex was told of a custom call: recovered input, before its item and once, and none of it in
\* the form of the platform once the call was announced.
ToldOf(k, told, hs, cs) ==
  \A i \in DOMAIN told : told[i].item = k =>
    /\ told[i].type \in Inputs \cup {"item"} => k \notin spoilt /\ told[i].n = 1
    /\ told[i].type \in Inputs => hs[k].emitted
    /\ told[i].type \in RawEvents => ~cs[k].announced /\ Came(k, cs)
    /\ told[i].type = "item" => \E j \in DOMAIN told : j < i /\ told[j].type = "inputDone" /\ told[j].item = k
InputOnce(k, told) ==
  \A i, j \in DOMAIN told :
    told[i].item = k /\ told[j].item = k /\ told[i].type = told[j].type /\ told[i].type \in Inputs => i = j
CallInv(k, told, hs, cs, over) ==
  /\ cs[k].at \in {"none", "added"} => ~hs[k].emitted
  /\ ToldOf(k, told, hs, cs) /\ InputOnce(k, told)
  /\ ~over => /\ cs[k].announced => hs[k].known
              /\ hs[k].emitted => \E j \in DOMAIN told : told[j].type = "inputDone" /\ told[j].item = k
FailsLast(told, over) == \A i \in DOMAIN told : told[i].type = "translationFailed" <=> over /\ i = Len(told)
IsSaved(told) ==
  saved # B!Nothing =>
    /\ wrote.over /\ ~failed /\ saved \cap spoilt = {}
    /\ \E i \in DOMAIN told : told[i].type \in {"completed", "incomplete"} /\ told[i].item = saved
BridgeInv ==
  /\ B!TypeOK /\ bridged \in Seq(BridgeEvents)
  /\ \A i \in DOMAIN bridged :
       bridged[i].type = "translationFailed" => bridged[i] = B!TranslationFailed
  /\ \A k \in Calls : B!Custom(k) => CallInv(k, bridged, held, wrote.call, failed)
  /\ FailsLast(bridged, failed) /\ IsSaved(bridged)

\* A sequence that is made longer
LEMMA Longer ==
  ASSUME NEW Es, NEW es \in Seq(Es), NEW fs \in Seq(Es)
  PROVE  /\ es \o fs \in Seq(Es) /\ Len(es \o fs) = Len(es) + Len(fs) /\ Len(es) \in Nat /\ Len(fs) \in Nat
         /\ DOMAIN (es \o fs) = 1 .. Len(es) + Len(fs) /\ DOMAIN es = 1 .. Len(es) /\ DOMAIN fs = 1 .. Len(fs)
         /\ \A i \in DOMAIN es : (es \o fs)[i] = es[i]
         /\ \A i \in DOMAIN fs : (es \o fs)[Len(es) + i] = fs[i]
         /\ \A i \in DOMAIN (es \o fs) : i \in DOMAIN es \/ i - Len(es) \in DOMAIN fs
OBVIOUS

\* What the result of one event must be, for the invariant: of how far the call has come (c) ...
Proceeds(k, c) ==
  /\ c \in CallStates
  /\ Came(k, wrote.call) => c.at # "none" \/ c.n > 0
  /\ c.announced => wrote.call[k].announced \/ ~Came(k, wrote.call)
  /\ c.at \in {"none", "added"} => wrote.call[k].at \in {"none", "added"}
\* ... and what is held of it and told
Handles(k, c, h, ok, es) ==
  /\ c.at \in {"none", "added"} => ~h.emitted
  /\ c.announced => h.known
  /\ held[k].emitted => h.emitted
  /\ ok => /\ \A j \in DOMAIN es : es[j].type \in Inputs \cup {"item"} => k \notin spoilt /\ es[j].n = 1
           /\ \A j \in DOMAIN es : es[j].type \in Inputs => ~held[k].emitted /\ h.emitted
           /\ \A i, j \in DOMAIN es : es[i].type = es[j].type /\ es[i].type \in Inputs => i = j
           /\ \A j \in DOMAIN es : es[j].type = "item" =>
                held[k].emitted \/ \E i \in DOMAIN es : i < j /\ es[i].type = "inputDone"
           /\ h.emitted => held[k].emitted \/ \E j \in DOMAIN es : es[j].type = "inputDone"
           /\ \A j \in DOMAIN es : es[j].type \in RawEvents => ~c.announced /\ (c.at # "none" \/ c.n > 0)

\* What is made of an event, and whether that is what the invariant asks for
Outcomes == [ok : BOOLEAN, events : Seq(BridgeEvents), call : HeldCalls]
Fits(k, c, r) ==
  /\ r \in Outcomes
  /\ \A j \in DOMAIN r.events : r.events[j].item = k /\ r.events[j].type \in OfCall
  /\ ~failed /\ B!Custom(k) => Handles(k, c, r.call, r.ok, r.events)

\* The platform writes of a call, and what is made of it fits.
LEMMA WritingKeeps ==
  ASSUME BridgeInv, NEW k \in Calls, NEW c, Proceeds(k, c), NEW r, Fits(k, c, r), B!Accepts(k, r),
         wrote' = [wrote EXCEPT !.call = [wrote.call EXCEPT ![k] = c]], ~wrote.over
  PROVE  BridgeInv'
<1>e. r.ok \in BOOLEAN /\ r.call \in HeldCalls /\ r.events \in Seq(BridgeEvents)
  BY DEF Fits, Outcomes
<1>f. /\ IF failed THEN UNCHANGED <<held, failed, bridged>>
         ELSE /\ held' = [held EXCEPT ![k] = r.call] /\ failed' = ~r.ok
              /\ bridged' = IF r.ok THEN bridged \o r.events ELSE Append(bridged, B!TranslationFailed)
      /\ UNCHANGED <<tool, spoilt, saved, link>>
  BY DEF B!Accepts, B!Fixed
<1>g. /\ \A j \in DOMAIN r.events : r.events[j].item = k /\ r.events[j].type \in OfCall
      /\ ~failed /\ B!Custom(k) => Handles(k, c, r.call, r.ok, r.events)
  BY DEF Fits
<1> DEFINE ok == r.ok
            h == r.call
            es == r.events
<1>r. /\ ok \in BOOLEAN /\ h \in HeldCalls /\ es \in Seq(BridgeEvents)
      /\ \A j \in DOMAIN es : es[j].item = k /\ es[j].type \in OfCall
      /\ ~failed /\ B!Custom(k) => Handles(k, c, h, ok, es)
      /\ failed => UNCHANGED <<held, failed, bridged>>
      /\ ~failed => held' = [held EXCEPT ![k] = h] /\ failed' = ~ok
      /\ ~failed /\ ok => bridged' = bridged \o es
      /\ ~failed /\ ~ok => bridged' = Append(bridged, B!TranslationFailed)
      /\ UNCHANGED <<tool, spoilt, saved, link>>
  BY <1>e, <1>f, <1>g
<1>. HIDE DEF ok, h, es
<1>. USE <1>r
<1>t. /\ B!TypeOK /\ bridged \in Seq(BridgeEvents) /\ FailsLast(bridged, failed) /\ IsSaved(bridged)
      /\ \A i \in DOMAIN bridged : bridged[i].type = "translationFailed" => bridged[i] = B!TranslationFailed
      /\ \A q \in Calls : B!Custom(q) => CallInv(q, bridged, held, wrote.call, failed)
  BY DEF BridgeInv
<1>w. /\ wrote'.over = wrote.over /\ wrote'.call[k] = c /\ \A q \in Calls \ {k} : wrote'.call[q] = wrote.call[q]
      /\ wrote' \in [over : BOOLEAN, call : [Calls -> CallStates]]
  BY <1>t DEF B!TypeOK, CallStates, Proceeds
<1>h. held' \in [Calls -> HeldCalls] /\ held \in [Calls -> HeldCalls]
  <2>1. held \in [Calls -> HeldCalls]
    BY <1>t DEF B!TypeOK, HeldCalls
  <2>2. CASE failed
    BY <2>1, <2>2
  <2>3. CASE ~failed
    BY <2>1, <2>3
  <2>. QED
    BY <2>1, <2>2, <2>3
<1>1. B!TypeOK'
  BY <1>t, <1>w, <1>h DEF B!TypeOK, CallStates, HeldCalls, B!Custom
<1>s. saved = B!Nothing
  BY <1>t DEF IsSaved
<1>2. CASE failed
  <2>1. ASSUME NEW q \in Calls, B!Custom(q) PROVE CallInv(q, bridged, held, wrote'.call, failed)
    <3>1. CallInv(q, bridged, held, wrote.call, failed)
      BY <2>1, <1>t
    <3>2. CASE q = k
      BY <3>1, <3>2, <1>2, <1>w DEF CallInv, ToldOf, Proceeds, Came
    <3>3. CASE q # k
      BY <3>1, <3>3, <1>2, <1>w DEF CallInv, ToldOf, Came
    <3>. QED
      BY <3>2, <3>3
  <2>. QED
    BY <1>1, <1>2, <1>s, <1>t, <2>1 DEF BridgeInv, FailsLast, IsSaved, B!Custom, CallInv, ToldOf, InputOnce, Came, B!Nothing,
       B!TranslationFailed
<1>3. CASE ~failed /\ ok
  <2>1. /\ bridged' = bridged \o es /\ held' = [held EXCEPT ![k] = h] /\ failed' = FALSE
        /\ held'[k] = h /\ \A q \in Calls \ {k} : held'[q] = held[q]
    BY <1>3, <1>h
  <2>2. /\ bridged' \in Seq(BridgeEvents) /\ Len(bridged') = Len(bridged) + Len(es) /\ Len(bridged) \in Nat /\ Len(es) \in Nat
        /\ DOMAIN bridged' = 1 .. Len(bridged) + Len(es) /\ DOMAIN bridged = 1 .. Len(bridged) /\ DOMAIN es = 1 .. Len(es)
        /\ \A i \in DOMAIN bridged : bridged'[i] = bridged[i]
        /\ \A i \in DOMAIN es : bridged'[Len(bridged) + i] = es[i]
        /\ \A i \in DOMAIN bridged' : i \in DOMAIN bridged \/ i - Len(bridged) \in DOMAIN es
    BY <2>1, <1>t, Longer
  <2>n. \A i \in DOMAIN bridged' : i \notin DOMAIN bridged =>
          i - Len(bridged) \in DOMAIN es /\ bridged'[i] = es[i - Len(bridged)] /\ i > Len(bridged)
    BY <2>2
  <2>3. \A i \in DOMAIN bridged' : bridged'[i].type # "translationFailed"
    BY <2>2, <2>n, <1>3, <1>t DEF FailsLast, OfCall, Inputs, RawEvents
  <2>4. ASSUME NEW q \in Calls, B!Custom(q), q # k PROVE CallInv(q, bridged', held', wrote'.call, failed')
    <3>1. CallInv(q, bridged, held, wrote.call, failed)
      BY <2>4, <1>t
    <3>2. \A i \in DOMAIN bridged' : bridged'[i].item = q => i \in DOMAIN bridged /\ bridged'[i] = bridged[i]
      BY <2>2, <2>n, <2>4
    <3>3. ToldOf(q, bridged', held', wrote'.call) /\ InputOnce(q, bridged')
      <4>1. held'[q] = held[q] /\ wrote'.call[q] = wrote.call[q]
        BY <2>1, <2>4, <1>w
      <4>2. \A i \in DOMAIN bridged : i \in DOMAIN bridged' /\ bridged'[i] = bridged[i]
        BY <2>2
      <4>3. ToldOf(q, bridged', held', wrote'.call)
        BY <3>1, <3>2, <4>1, <4>2 DEF CallInv, ToldOf, Came
      <4>4. InputOnce(q, bridged')
        BY <3>1, <3>2 DEF CallInv, InputOnce
      <4>. QED
        BY <4>3, <4>4
    <3>. QED
      <4>1. held'[q] = held[q] /\ wrote'.call[q] = wrote.call[q]
        BY <2>1, <2>4, <1>w
      <4>2. \A i \in DOMAIN bridged : i \in DOMAIN bridged' /\ bridged'[i] = bridged[i]
        BY <2>2
      <4>3. /\ wrote.call[q].at \in {"none", "added"} => ~held[q].emitted
            /\ wrote.call[q].announced => held[q].known
            /\ held[q].emitted => \E j \in DOMAIN bridged : bridged[j].type = "inputDone" /\ bridged[j].item = q
        BY <3>1, <1>3 DEF CallInv
      <4>. QED
        BY <3>3, <4>1, <4>2, <4>3 DEF CallInv
  <2>5. ASSUME B!Custom(k) PROVE CallInv(k, bridged', held', wrote'.call, failed')
    <3>1. CallInv(k, bridged, held, wrote.call, failed) /\ Handles(k, c, h, ok, es)
      BY <2>5, <1>3, <1>t
    <3>2. ToldOf(k, bridged', held', wrote'.call)
      <4>1. ASSUME NEW i \in DOMAIN bridged, bridged[i].item = k
            PROVE  /\ bridged[i].type \in Inputs \cup {"item"} => k \notin spoilt /\ bridged[i].n = 1
                   /\ bridged[i].type \in Inputs => h.emitted
                   /\ bridged[i].type \in RawEvents => ~c.announced /\ (c.at # "none" \/ c.n > 0)
                   /\ bridged[i].type = "item" =>
                        \E j \in DOMAIN bridged : j < i /\ bridged[j].type = "inputDone" /\ bridged[j].item = k
        BY <3>1, <4>1 DEF CallInv, ToldOf, Handles, Proceeds
      <4>2. ASSUME NEW i \in DOMAIN es
            PROVE  /\ es[i].type \in Inputs \cup {"item"} => k \notin spoilt /\ es[i].n = 1
                   /\ es[i].type \in Inputs => h.emitted
                   /\ es[i].type \in RawEvents => ~c.announced /\ (c.at # "none" \/ c.n > 0)
        BY <3>1, <1>3, <4>2 DEF Handles
      <4>3. ASSUME NEW i \in DOMAIN es, es[i].type = "item"
            PROVE  \E j \in DOMAIN bridged' : j < Len(bridged) + i /\ bridged'[j].type = "inputDone" /\ bridged'[j].item = k
        <5>1. CASE held[k].emitted
          <6>1. PICK j \in DOMAIN bridged : bridged[j].type = "inputDone" /\ bridged[j].item = k
            BY <3>1, <5>1, <1>3 DEF CallInv
          <6>. QED
            BY <6>1, <2>2
        <5>2. CASE ~held[k].emitted
          <6>1. PICK j \in DOMAIN es : j < i /\ es[j].type = "inputDone"
            BY <3>1, <5>2, <4>3, <1>3 DEF Handles
          <6>2. Len(bridged) + j \in DOMAIN bridged' /\ Len(bridged) + j < Len(bridged) + i
            BY <6>1, <2>2
          <6>. QED
            BY <6>1, <6>2, <2>2
        <5>. QED
          BY <5>1, <5>2
      <4>4. ASSUME NEW i \in DOMAIN bridged', bridged'[i].item = k, bridged'[i].type = "item"
            PROVE  \E j \in DOMAIN bridged' : j < i /\ bridged'[j].type = "inputDone" /\ bridged'[j].item = k
        <5>1. CASE i \in DOMAIN bridged
          BY <5>1, <4>1, <4>4, <2>2
        <5>2. CASE i \notin DOMAIN bridged
          BY <5>2, <4>3, <4>4, <2>n, <2>2
        <5>. QED
          BY <5>1, <5>2
      <4>5. ASSUME NEW i \in DOMAIN bridged', bridged'[i].item = k
            PROVE  /\ bridged'[i].type \in Inputs \cup {"item"} => k \notin spoilt /\ bridged'[i].n = 1
                   /\ bridged'[i].type \in Inputs => h.emitted
                   /\ bridged'[i].type \in RawEvents => ~c.announced /\ (c.at # "none" \/ c.n > 0)
        <5>1. CASE i \in DOMAIN bridged
          BY <5>1, <4>1, <4>5, <2>2
        <5>2. CASE i \notin DOMAIN bridged
          BY <5>2, <4>2, <4>5, <2>n
        <5>. QED
          BY <5>1, <5>2
      <4>. QED
        BY <4>4, <4>5, <2>1, <1>w DEF ToldOf, Came
    <3>3. InputOnce(k, bridged')
      <4>1. ASSUME NEW i \in DOMAIN bridged', NEW j \in DOMAIN bridged', bridged'[i].item = k, bridged'[j].item = k,
                   bridged'[i].type = bridged'[j].type, bridged'[i].type \in Inputs
            PROVE  i = j
        <5>1. CASE i \in DOMAIN bridged /\ j \in DOMAIN bridged
          BY <5>1, <4>1, <3>1, <2>2 DEF CallInv, InputOnce
        <5>2. CASE i \notin DOMAIN bridged /\ j \notin DOMAIN bridged
          <6>1. i - Len(bridged) = j - Len(bridged)
            BY <5>2, <4>1, <3>1, <2>n, <1>3 DEF Handles
          <6>. QED
            BY <6>1, <2>2
        <5>3. \A m \in DOMAIN bridged : bridged'[m].item = k /\ bridged'[m].type \in Inputs => held[k].emitted
          BY <3>1, <2>2 DEF CallInv, ToldOf
        <5>4. \A m \in DOMAIN bridged' : m \notin DOMAIN bridged /\ bridged'[m].type \in Inputs => ~held[k].emitted
          BY <3>1, <2>n, <1>3 DEF Handles
        <5>. QED
          BY <5>1, <5>2, <5>3, <5>4, <4>1
      <4>. QED
        BY <4>1 DEF InputOnce
    <3>4. h.emitted => \E j \in DOMAIN bridged' : bridged'[j].type = "inputDone" /\ bridged'[j].item = k
      <4>1. CASE held[k].emitted
        BY <4>1, <3>1, <2>2, <1>3 DEF CallInv
      <4>2. ASSUME h.emitted, ~held[k].emitted
            PROVE  \E j \in DOMAIN bridged' : bridged'[j].type = "inputDone" /\ bridged'[j].item = k
        <5>1. PICK j \in DOMAIN es : es[j].type = "inputDone"
          BY <4>2, <3>1, <1>3 DEF Handles
        <5>2. Len(bridged) + j \in DOMAIN bridged'
          BY <2>2
        <5>. QED
          BY <5>1, <5>2, <2>2
      <4>. QED
        BY <4>1, <4>2
    <3>. QED
      BY <3>1, <3>2, <3>3, <3>4, <2>1, <1>w DEF CallInv, Handles
  <2>6. FailsLast(bridged', failed')
    BY <2>1, <2>3 DEF FailsLast
  <2>7. \A q \in Calls : B!Custom(q) => CallInv(q, bridged', held', wrote'.call, failed')
    BY <2>4, <2>5
  <2>. QED
    BY <1>1, <1>s, <2>2, <2>3, <2>6, <2>7 DEF BridgeInv, IsSaved, B!Custom, B!Nothing, CallInv, ToldOf, InputOnce, Came, FailsLast
<1>4. CASE ~failed /\ ~ok
  <2>1. /\ bridged' = Append(bridged, B!TranslationFailed) /\ held' = [held EXCEPT ![k] = h] /\ failed' = TRUE
        /\ held'[k] = h /\ \A q \in Calls \ {k} : held'[q] = held[q]
    BY <1>4, <1>h
  <2>2. B!TranslationFailed \in BridgeEvents /\ B!TranslationFailed.type = "translationFailed"
    BY DEF BridgeEvents, Ending, B!TranslationFailed
  <2>3. /\ bridged' \in Seq(BridgeEvents) /\ Len(bridged') = Len(bridged) + 1 /\ Len(bridged) \in Nat
        /\ DOMAIN bridged' = 1 .. Len(bridged) + 1 /\ DOMAIN bridged = 1 .. Len(bridged)
        /\ \A i \in DOMAIN bridged : bridged'[i] = bridged[i]
        /\ bridged'[Len(bridged) + 1] = B!TranslationFailed
    <3>. HIDE DEF B!TranslationFailed
    <3>. QED
      BY <2>1, <2>2, <1>t
  <2>4. FailsLast(bridged', failed')
    <3>1. \A i \in DOMAIN bridged : bridged'[i].type # "translationFailed" /\ i # Len(bridged) + 1
      BY <2>3, <1>4, <1>t DEF FailsLast
    <3>2. \A i \in DOMAIN bridged' : i \in DOMAIN bridged \/ i = Len(bridged) + 1
      BY <2>3
    <3>3. \A i \in DOMAIN bridged' : bridged'[i].type = "translationFailed" <=> i = Len(bridged')
      BY <2>2, <2>3, <3>1, <3>2
    <3>. QED
      BY <2>1, <3>3 DEF FailsLast
  <2>5. ASSUME NEW q \in Calls, B!Custom(q) PROVE CallInv(q, bridged', held', wrote'.call, failed')
    <3>1. CallInv(q, bridged, held, wrote.call, failed)
      BY <2>5, <1>t
    <3>2. \A i \in DOMAIN bridged' : bridged'[i].type # "translationFailed" => i \in DOMAIN bridged /\ bridged'[i] = bridged[i]
      BY <2>2, <2>3
    <3>3. "translationFailed" \notin Inputs \cup RawEvents \cup {"item"}
      BY DEF Inputs, RawEvents
    <3>4. InputOnce(q, bridged')
      BY <3>1, <3>2, <3>3, <2>3 DEF CallInv, InputOnce
    <3>5. q = k => Handles(k, c, h, ok, es)
      BY <2>5, <1>4
    <3>6. ToldOf(q, bridged', held', wrote'.call)
      <4>1. ASSUME NEW i \in DOMAIN bridged', bridged'[i].item = q, bridged'[i].type # "translationFailed"
            PROVE  /\ bridged'[i].type \in Inputs \cup {"item"} => q \notin spoilt /\ bridged'[i].n = 1
                   /\ bridged'[i].type \in Inputs => held'[q].emitted
                   /\ bridged'[i].type \in RawEvents => ~wrote'.call[q].announced /\ Came(q, wrote'.call)
                   /\ bridged'[i].type = "item" =>
                        \E j \in DOMAIN bridged' : j < i /\ bridged'[j].type = "inputDone" /\ bridged'[j].item = q
        <5>1. i \in DOMAIN bridged /\ bridged'[i] = bridged[i]
          BY <4>1, <3>2
        <5>2. held[q].emitted => held'[q].emitted
          BY <2>1, <3>5 DEF Handles
        <5>3. Came(q, wrote.call) => Came(q, wrote'.call)
          BY <1>w DEF Proceeds, Came
        <5>4. Came(q, wrote.call) /\ ~wrote.call[q].announced => ~wrote'.call[q].announced
          BY <1>w DEF Proceeds
        <5>. QED
          BY <5>1, <5>2, <5>3, <5>4, <4>1, <3>1, <2>3 DEF CallInv, ToldOf
      <4>2. ASSUME NEW i \in DOMAIN bridged', bridged'[i].item = q
            PROVE  /\ bridged'[i].type \in Inputs \cup {"item"} => q \notin spoilt /\ bridged'[i].n = 1
                   /\ bridged'[i].type \in Inputs => held'[q].emitted
                   /\ bridged'[i].type \in RawEvents => ~wrote'.call[q].announced /\ Came(q, wrote'.call)
                   /\ bridged'[i].type = "item" =>
                        \E j \in DOMAIN bridged' : j < i /\ bridged'[j].type = "inputDone" /\ bridged'[j].item = q
        <5>1. CASE bridged'[i].type = "translationFailed"
          BY <5>1, <3>3
        <5>2. CASE bridged'[i].type # "translationFailed"
          BY <5>2, <4>1, <4>2
        <5>. QED
          BY <5>1, <5>2
      <4>. QED
        BY <4>2 DEF ToldOf
    <3>7. wrote'.call[q].at \in {"none", "added"} => ~held'[q].emitted
      BY <3>1, <3>5, <2>1, <1>w DEF CallInv, Handles
    <3>. QED
      BY <3>4, <3>6, <3>7, <2>1 DEF CallInv
  <2>6. \A i \in DOMAIN bridged' : bridged'[i].type = "translationFailed" => bridged'[i] = B!TranslationFailed
    BY <2>3, <1>t
  <2>. QED
    BY <1>1, <1>s, <2>3, <2>4, <2>5, <2>6 DEF BridgeInv, IsSaved, B!Custom, B!Nothing, CallInv, ToldOf, InputOnce, Came,
       FailsLast, B!TranslationFailed
<1>. QED
  BY <1>2, <1>3, <1>4

LEMMA OutcomeFits ==
  ASSUME NEW k, NEW c, NEW ok \in BOOLEAN, NEW es \in Seq(BridgeEvents), NEW h \in HeldCalls,
         \A j \in DOMAIN es : es[j].item = k /\ es[j].type \in OfCall,
         ~failed /\ B!Custom(k) => Handles(k, c, h, ok, es)
  PROVE  Fits(k, c, [ok |-> ok, events |-> es, call |-> h])
<1>. DEFINE r == [ok |-> ok, events |-> es, call |-> h]
<1>1. r.ok = ok /\ r.events = es /\ r.call = h /\ r \in Outcomes
  BY DEF Outcomes
<1>. HIDE DEF r
<1>2. Fits(k, c, r)
  BY <1>1 DEF Fits
<1>. QED
  BY <1>2 DEF r

LEMMA OneEvent ==
  ASSUME NEW k \in Calls, NEW type \in OfCall, NEW n \in Nat
  PROVE  /\ B!Event(type, k, n) \in BridgeEvents
         /\ <<B!Event(type, k, n)>> \in Seq(BridgeEvents) /\ DOMAIN <<B!Event(type, k, n)>> = {1}
         /\ <<B!Event(type, k, n)>>[1].item = k /\ <<B!Event(type, k, n)>>[1].type = type
         /\ <<B!Event(type, k, n)>>[1].n = n
<1>1. B!Event(type, k, n) \in BridgeEvents
  BY DEF BridgeEvents, B!Event
<1>2. B!Event(type, k, n).item = k /\ B!Event(type, k, n).type = type /\ B!Event(type, k, n).n = n
  BY DEF B!Event
<1>. QED
  BY <1>1, <1>2

\* The parts of the bridge's state, taken from its type.
LEMMA BridgeTypes ==
  ASSUME BridgeInv
  PROVE  /\ wrote \in [over : BOOLEAN, call : [Calls -> CallStates]] /\ held \in [Calls -> HeldCalls]
         /\ \A k \in Calls : /\ wrote.call[k] \in CallStates /\ held[k] \in HeldCalls
                             /\ wrote.call[k].n \in 0 .. 1 /\ wrote.call[k].announced \in BOOLEAN
                             /\ held[k].known \in BOOLEAN /\ held[k].emitted \in BOOLEAN /\ held[k].n \in Nat
                             /\ B!Custom(k) => B!Bridged(k)
BY DEF BridgeInv, B!TypeOK, CallStates, HeldCalls, B!Custom, B!Bridged

LEMMA AddedFits ==
  ASSUME BridgeInv, NEW k \in Calls, NEW n \in {0, 1}, ~Came(k, wrote.call),
         NEW c, c = [at |-> "added", announced |-> TRUE, n |-> 0]
  PROVE  Fits(k, c, B!Added(k, n))
<1> DEFINE h == [known |-> TRUE, n |-> n, emitted |-> FALSE]
<1>1. CASE B!Bridged(k)
  <2>1. B!Added(k, n) = [ok |-> B!Translates(k, n, TRUE), events |-> <<B!Event("added", k, n)>>, call |-> h]
    BY <1>1 DEF B!Added, B!Result, B!Unknown
  <2>2. B!Translates(k, n, TRUE) \in BOOLEAN /\ h \in HeldCalls
    BY DEF B!Translates, HeldCalls
  <2>3. B!Custom(k) => ~held[k].emitted
    BY DEF BridgeInv, CallInv, Came
  <2>. QED
    <3> DEFINE es == <<B!Event("added", k, n)>>
               ok == B!Translates(k, n, TRUE)
    <3>0. ok \in BOOLEAN
      BY <2>2
    <3>1. es \in Seq(BridgeEvents) /\ \A j \in DOMAIN es : es[j].item = k /\ es[j].type = "added"
      <4>1. "added" \in OfCall /\ n \in Nat
        BY DEF OfCall
      <4>. QED
        BY <4>1, OneEvent
    <3>2. h.known = TRUE /\ h.emitted = FALSE
      OBVIOUS
    <3>. HIDE DEF es, ok, h
    <3>3. B!Custom(k) => Handles(k, c, h, ok, es)
      BY <2>3, <3>1, <3>2 DEF Handles, Inputs, RawEvents
    <3>4. Fits(k, c, [ok |-> ok, events |-> es, call |-> h])
      BY <2>2, <3>0, <3>1, <3>3, OutcomeFits DEF OfCall
    <3>. QED
      BY <2>1, <3>4 DEF es, ok
<1>2. CASE ~B!Bridged(k)
  <2>1. B!Added(k, n) = [ok |-> TRUE, events |-> <<B!Event("rawAdded", k, n)>>, call |-> held[k]]
    BY <1>2 DEF B!Added, B!Result
  <2>2. held[k] \in HeldCalls /\ ~B!Custom(k)
    BY <1>2, BridgeTypes
  <2>. QED
    <3> DEFINE es == <<B!Event("rawAdded", k, n)>>
    <3>1. es \in Seq(BridgeEvents) /\ \A j \in DOMAIN es : es[j].item = k /\ es[j].type = "rawAdded"
      BY OneEvent DEF OfCall, RawEvents
    <3>. HIDE DEF es
    <3>2. Fits(k, c, [ok |-> TRUE, events |-> es, call |-> held[k]])
      BY <2>2, <3>1, OutcomeFits DEF OfCall, RawEvents
    <3>. QED
      BY <2>1, <3>2 DEF es
<1>. QED
  BY <1>1, <1>2

LEMMA DeltaFits ==
  ASSUME BridgeInv, NEW k \in Calls, wrote.call[k].at \in {"none", "added"}, wrote.call[k].n < 1,
         NEW c, c = [at |-> wrote.call[k].at, announced |-> wrote.call[k].announced, n |-> wrote.call[k].n + 1]
  PROVE  Fits(k, c, B!Delta(k))
<1>t. held[k] \in HeldCalls /\ held[k].n \in Nat /\ held[k].known \in BOOLEAN /\ wrote.call[k].n \in 0 .. 1
  BY BridgeTypes
<1>c. /\ B!Custom(k) => ~held[k].emitted
      /\ ~failed /\ B!Custom(k) => (wrote.call[k].announced => held[k].known)
  BY DEF BridgeInv, CallInv
<1> DEFINE h == [held[k] EXCEPT !.n = held[k].n + 1]
<1>1. CASE held[k].known /\ B!Custom(k)
  <2>1. B!Delta(k) = [ok |-> TRUE, events |-> <<>>, call |-> h]
    BY <1>1 DEF B!Delta, B!Result
  <2>2. h \in HeldCalls /\ h.known = held[k].known /\ h.emitted = held[k].emitted
    BY <1>t DEF HeldCalls
  <2>3. <<>> \in Seq(BridgeEvents) /\ DOMAIN <<>> = {}
    OBVIOUS
  <2>. HIDE DEF h
  <2>. QED
    <3>1. ~failed => Handles(k, c, h, TRUE, <<>>)
      BY <1>1, <1>c, <2>2, <2>3 DEF Handles
    <3>2. Fits(k, c, [ok |-> TRUE, events |-> <<>>, call |-> h])
      BY <2>2, <2>3, <3>1, OutcomeFits
    <3>. QED
      BY <2>1, <3>2
<1>2. CASE ~(held[k].known /\ B!Custom(k))
  <2>1. B!Delta(k) = [ok |-> TRUE, events |-> <<B!Event("rawDelta", k, 1)>>, call |-> held[k]]
    BY <1>2 DEF B!Delta, B!Result
  <2>. QED
    BY <1>2, <1>c, <1>t, <2>1, OneEvent DEF Fits, Outcomes, Handles, OfCall, RawEvents, Inputs
<1>. QED
  BY <1>1, <1>2

LEMMA TwoEvents ==
  ASSUME NEW k \in Calls, NEW n \in Nat
  PROVE  /\ B!InputEvents(k, n) \in Seq(BridgeEvents) /\ DOMAIN B!InputEvents(k, n) = {1, 2}
         /\ Len(B!InputEvents(k, n)) = 2
         /\ B!InputEvents(k, n)[1] = B!Event("inputDelta", k, n) /\ B!InputEvents(k, n)[2] = B!Event("inputDone", k, n)
         /\ \A i \in {1, 2} : B!InputEvents(k, n)[i].item = k /\ B!InputEvents(k, n)[i].n = n
         /\ B!InputEvents(k, n)[1].type = "inputDelta" /\ B!InputEvents(k, n)[2].type = "inputDone"
<1>1. B!Event("inputDelta", k, n) \in BridgeEvents /\ B!Event("inputDone", k, n) \in BridgeEvents
  BY OneEvent DEF OfCall, Inputs
<1>2. /\ B!Event("inputDelta", k, n).item = k /\ B!Event("inputDone", k, n).item = k
      /\ B!Event("inputDelta", k, n).n = n /\ B!Event("inputDone", k, n).n = n
      /\ B!Event("inputDelta", k, n).type = "inputDelta" /\ B!Event("inputDone", k, n).type = "inputDone"
  BY DEF B!Event
<1>. QED
  BY <1>1, <1>2 DEF B!InputEvents

LEMMA WholeFits ==
  ASSUME BridgeInv, NEW k \in Calls, NEW n \in Nat, NEW told \in BOOLEAN, wrote.call[k].at \in {"none", "added"},
         NEW c, c = [at |-> "whole", announced |-> wrote.call[k].announced, n |-> wrote.call[k].n]
  PROVE  Fits(k, c, B!Whole(k, n, told))
<1>t. held[k] \in HeldCalls /\ held[k].n \in Nat /\ held[k].known \in BOOLEAN
  BY BridgeTypes
<1>c. /\ B!Custom(k) => ~held[k].emitted
      /\ ~failed /\ B!Custom(k) => (wrote.call[k].announced => held[k].known)
  BY DEF BridgeInv, CallInv
<1> DEFINE args == IF told THEN n ELSE held[k].n
           h == [held[k] EXCEPT !.n = args, !.emitted = B!Recovered(k, args)]
           es == B!InputEvents(k, args)
<1>1. CASE held[k].known /\ B!Custom(k)
  <2>1. B!Whole(k, n, told) = [ok |-> B!Recovered(k, args), events |-> es, call |-> h]
    BY <1>1 DEF B!Whole, B!Result
  <2>2. B!Recovered(k, args) \in BOOLEAN /\ (B!Recovered(k, args) => args = 1 /\ k \notin spoilt) /\ args \in Nat
    BY <1>t DEF B!Recovered
  <2>3. h \in HeldCalls /\ h.known = held[k].known /\ h.emitted = B!Recovered(k, args)
    BY <1>t, <2>2 DEF HeldCalls
  <2>4. /\ es \in Seq(BridgeEvents) /\ DOMAIN es = {1, 2} /\ \A i \in {1, 2} : es[i].item = k /\ es[i].n = args
        /\ es[1].type = "inputDelta" /\ es[2].type = "inputDone"
    BY <2>2, TwoEvents
  <2>. HIDE DEF h, args, es
  <2>5. ~failed => Handles(k, c, h, B!Recovered(k, args), es)
    BY <1>1, <1>c, <2>2, <2>3, <2>4 DEF Handles, Inputs, RawEvents
  <2>. QED
    BY <2>1, <2>2, <2>3, <2>4, <2>5 DEF Fits, Outcomes, OfCall, Inputs
<1>2. CASE ~(held[k].known /\ B!Custom(k))
  <2>1. B!Whole(k, n, told) = [ok |-> TRUE, events |-> <<B!Event("rawDone", k, n)>>, call |-> held[k]]
    BY <1>2 DEF B!Whole, B!Result
  <2>. QED
    BY <1>2, <1>c, <1>t, <2>1, OneEvent DEF Fits, Outcomes, Handles, OfCall, RawEvents, Inputs
<1>. QED
  BY <1>1, <1>2

LEMMA DoneFits ==
  ASSUME BridgeInv, NEW k \in Calls, NEW n \in Nat, NEW told \in BOOLEAN,
         NEW c, c = [at |-> "item", announced |-> wrote.call[k].announced, n |-> wrote.call[k].n]
  PROVE  Fits(k, c, B!Done(k, n, told))
<1>t. held[k] \in HeldCalls /\ held[k].n \in Nat /\ held[k].known \in BOOLEAN /\ held[k].emitted \in BOOLEAN
  BY BridgeTypes
<1> DEFINE args == IF told THEN n ELSE held[k].n
           emits == B!Custom(k) /\ ~held[k].emitted
           last == B!Event("item", k, n)
           es == (IF emits THEN B!InputEvents(k, args) ELSE <<>>) \o <<last>>
           ok == (emits => B!Recovered(k, args)) /\ B!Translates(k, IF told THEN n ELSE 0, FALSE)
           h == [known |-> TRUE, n |-> IF emits THEN args ELSE held[k].n,
                 emitted |-> held[k].emitted \/ (emits /\ B!Recovered(k, args))]
<1>1. CASE ~B!Bridged(k)
  <2>1. B!Done(k, n, told) = [ok |-> TRUE, events |-> <<B!Event("rawItem", k, n)>>, call |-> held[k]]
    BY <1>1 DEF B!Done, B!Result
  <2>2. ~B!Custom(k)
    BY <1>1, BridgeTypes
  <2>. QED
    <3> DEFINE raw == <<B!Event("rawItem", k, n)>>
    <3>1. raw \in Seq(BridgeEvents) /\ \A j \in DOMAIN raw : raw[j].item = k /\ raw[j].type = "rawItem"
      BY OneEvent DEF OfCall, RawEvents
    <3>. HIDE DEF raw
    <3>2. Fits(k, c, [ok |-> TRUE, events |-> raw, call |-> held[k]])
      BY <1>t, <2>2, <3>1, OutcomeFits DEF OfCall, RawEvents
    <3>. QED
      BY <2>1, <3>2 DEF raw
<1>2. CASE B!Bridged(k)
  <2>1. B!Done(k, n, told) = [ok |-> ok, events |-> es, call |-> h]
    BY <1>2 DEF B!Done, B!Result
  <2>2. /\ args \in Nat /\ (B!Recovered(k, args) => args = 1 /\ k \notin spoilt)
        /\ B!Recovered(k, args) \in BOOLEAN /\ emits \in BOOLEAN
    BY <1>t DEF B!Recovered
  <2>3. /\ ok \in BOOLEAN /\ (ok /\ B!Custom(k) => n = 1 /\ k \notin spoilt) /\ (ok /\ emits => B!Recovered(k, args))
    BY <2>2 DEF B!Translates, B!Recovered
  <2>4. /\ h \in HeldCalls /\ h.known = TRUE /\ h.emitted = (held[k].emitted \/ (emits /\ B!Recovered(k, args)))
    BY <1>t, <2>2 DEF HeldCalls
  <2>5. /\ last \in BridgeEvents /\ last.item = k /\ last.n = n /\ last.type = "item"
    BY OneEvent DEF OfCall, B!Event
  <2>. HIDE DEF h, ok, args, last
  <2>6. CASE emits
    <3>1. /\ es \in Seq(BridgeEvents) /\ DOMAIN es = {1, 2, 3} /\ es[3] = last
          /\ \A i \in {1, 2} : es[i].item = k /\ es[i].n = args
          /\ es[1].type = "inputDelta" /\ es[2].type = "inputDone"
      <4> DEFINE in == B!InputEvents(k, args)
      <4>1. /\ in \in Seq(BridgeEvents) /\ Len(in) = 2 /\ \A i \in {1, 2} : in[i].item = k /\ in[i].n = args
            /\ in[1].type = "inputDelta" /\ in[2].type = "inputDone"
        BY <2>2, TwoEvents
      <4>. HIDE DEF in
      <4>2. /\ in \o <<last>> \in Seq(BridgeEvents) /\ DOMAIN (in \o <<last>>) = {1, 2, 3}
            /\ (in \o <<last>>)[1] = in[1] /\ (in \o <<last>>)[2] = in[2] /\ (in \o <<last>>)[3] = last
        <5>1. <<last>> \in Seq(BridgeEvents) /\ Len(<<last>>) = 1 /\ DOMAIN <<last>> = {1} /\ <<last>>[1] = last
          BY <2>5
        <5> DEFINE end == <<last>>
        <5>. HIDE DEF end
        <5>2. /\ in \o end \in Seq(BridgeEvents) /\ DOMAIN (in \o end) = 1 .. 3
              /\ (in \o end)[1] = in[1] /\ (in \o end)[2] = in[2] /\ (in \o end)[3] = end[1]
          <6>0. in \in Seq(BridgeEvents) /\ end \in Seq(BridgeEvents)
            BY <4>1, <5>1 DEF end
          <6>1. Len(end) = 1 /\ DOMAIN in = 1 .. 2 /\ DOMAIN end = {1}
            BY <4>1, <5>1 DEF end
          <6>2. /\ in \o end \in Seq(BridgeEvents) /\ DOMAIN (in \o end) = 1 .. Len(in) + Len(end)
                /\ \A i \in DOMAIN in : (in \o end)[i] = in[i]
                /\ \A i \in DOMAIN end : (in \o end)[Len(in) + i] = end[i]
            BY <6>0, Longer
          <6>3. 1 \in DOMAIN in /\ 2 \in DOMAIN in /\ 1 \in DOMAIN end /\ Len(in) + Len(end) = 3 /\ Len(in) + 1 = 3
            BY <4>1, <6>1
          <6>. QED
            BY <6>2, <6>3
        <5>. QED
          BY <5>1, <5>2 DEF end
      <4>3. es = in \o <<last>>
        BY <2>6 DEF in
      <4>. QED
        BY <4>1, <4>2, <4>3
    <3>. HIDE DEF es
    <3>2. ~failed => Handles(k, c, h, ok, es)
      BY <2>2, <2>3, <2>4, <2>5, <2>6, <3>1 DEF Handles, Inputs, RawEvents
    <3>3. \A j \in DOMAIN es : es[j].item = k /\ es[j].type \in OfCall
      BY <2>5, <3>1 DEF OfCall, Inputs
    <3>. QED
      BY <2>1, <2>3, <2>4, <3>1, <3>2, <3>3 DEF Fits, Outcomes
  <2>7. CASE ~emits
    <3>1. es \in Seq(BridgeEvents) /\ DOMAIN es = {1} /\ es[1] = last
      <4>1. es = <<>> \o <<last>>
        BY <2>7
      <4>2. <<last>> \in Seq(BridgeEvents) /\ DOMAIN <<last>> = {1} /\ <<last>>[1] = last
        BY <2>5
      <4> DEFINE end == <<last>>
      <4>. HIDE DEF end
      <4>3. <<>> \o end = end
        BY <4>2 DEF end
      <4>. QED
        BY <4>1, <4>2, <4>3 DEF end
    <3>. HIDE DEF es
    <3>2. ~failed /\ B!Custom(k) => Handles(k, c, h, ok, es)
      BY <2>2, <2>3, <2>4, <2>5, <2>7, <3>1 DEF Handles, Inputs, RawEvents
    <3>3. \A j \in DOMAIN es : es[j].item = k /\ es[j].type \in OfCall
      BY <2>5, <3>1 DEF OfCall
    <3>. QED
      BY <2>1, <2>3, <2>4, <3>1, <3>2, <3>3 DEF Fits, Outcomes
  <2>. QED
    BY <2>6, <2>7
<1>. QED
  BY <1>1, <1>2

\* The four events of a call
LEMMA CallsKeep ==
  ASSUME BridgeInv, NEW k \in Calls,
         B!WritesAdded(k) \/ B!WritesDelta(k) \/ B!WritesWhole(k) \/ B!WritesItem(k)
  PROVE  BridgeInv'
<1>t. /\ wrote \in [over : BOOLEAN, call : [Calls -> CallStates]] /\ wrote.call[k] \in CallStates
      /\ wrote.call[k].n \in 0 .. 1 /\ wrote.call[k].announced \in BOOLEAN
  BY BridgeTypes
<1>1. ASSUME B!WritesAdded(k) PROVE BridgeInv'
  <2> DEFINE c == [at |-> "added", announced |-> TRUE, n |-> 0]
             b == wrote.call[k].announced \/ TRUE
  <2>1. /\ wrote' = [wrote EXCEPT !.call = [wrote.call EXCEPT ![k] = c]] /\ ~wrote.over
        /\ ~Came(k, wrote.call)
    <3>1. /\ wrote' = [wrote EXCEPT !.call = [wrote.call EXCEPT ![k] =
                       [at |-> "added", announced |-> b, n |-> wrote.call[k].n]]]
          /\ wrote.call[k].n = 0 /\ wrote.call[k].at = "none" /\ ~wrote.over
      BY <1>1, <1>t DEF B!WritesAdded, B!Writes, B!Open
    <3>2. b = TRUE
      BY <1>t
    <3>. HIDE DEF b
    <3>4. [at |-> "added", announced |-> b, n |-> wrote.call[k].n] = c
      BY <3>1, <3>2
    <3>5. ~Came(k, wrote.call)
      BY <3>1 DEF Came
    <3>. HIDE DEF c
    <3>. QED
      BY <3>1, <3>4, <3>5
  <2>2. PICK n \in {0, 1} : B!Accepts(k, B!Added(k, n))
    BY <1>1 DEF B!WritesAdded
  <2>3. Proceeds(k, c)
    BY <2>1 DEF Proceeds, CallStates, Came
  <2>. HIDE DEF c
  <2>4. Fits(k, c, B!Added(k, n))
    BY <2>1, AddedFits DEF c
  <2>. QED
    BY <2>1, <2>2, <2>3, <2>4, WritingKeeps
<1>2. ASSUME B!WritesDelta(k) PROVE BridgeInv'
  <2> DEFINE c == [at |-> wrote.call[k].at, announced |-> wrote.call[k].announced, n |-> wrote.call[k].n + 1]
  <2>1. /\ wrote' = [wrote EXCEPT !.call = [wrote.call EXCEPT ![k] = c]] /\ ~wrote.over
        /\ wrote.call[k].at \in {"none", "added"} /\ wrote.call[k].n < 1 /\ B!Accepts(k, B!Delta(k))
    BY <1>2, <1>t DEF B!WritesDelta, B!Open, CallStates
  <2>3. Proceeds(k, c)
    BY <2>1, <1>t DEF Proceeds, CallStates, Came
  <2>. HIDE DEF c
  <2>4. Fits(k, c, B!Delta(k))
    BY <2>1, DeltaFits DEF c
  <2>. QED
    BY <2>1, <2>3, <2>4, WritingKeeps
<1>3. ASSUME B!WritesWhole(k) PROVE BridgeInv'
  <2> DEFINE c == [at |-> "whole", announced |-> wrote.call[k].announced, n |-> wrote.call[k].n]
             b == wrote.call[k].announced \/ FALSE
  <2>1. /\ wrote' = [wrote EXCEPT !.call = [wrote.call EXCEPT ![k] = c]] /\ ~wrote.over
        /\ wrote.call[k].at \in {"none", "added"}
    <3>1. /\ wrote' = [wrote EXCEPT !.call = [wrote.call EXCEPT ![k] =
                       [at |-> "whole", announced |-> b, n |-> wrote.call[k].n]]]
          /\ wrote.call[k].at \in {"none", "added"} /\ ~wrote.over
      BY <1>3, <1>t DEF B!WritesWhole, B!Writes, B!Open
    <3>2. b = wrote.call[k].announced
      BY <1>t
    <3>. HIDE DEF b
    <3>4. [at |-> "whole", announced |-> b, n |-> wrote.call[k].n] = c
      BY <3>2
    <3>. QED
      BY <3>1, <3>4
  <2>2. PICK n \in Nat, told \in BOOLEAN : B!Accepts(k, B!Whole(k, n, told))
    BY <1>3, <1>t DEF B!WritesWhole
  <2>3. Proceeds(k, c)
    BY <2>1, <1>t DEF Proceeds, CallStates, Came
  <2>. HIDE DEF c
  <2>4. Fits(k, c, B!Whole(k, n, told))
    BY <2>1, WholeFits DEF c
  <2>. QED
    BY <2>1, <2>2, <2>3, <2>4, WritingKeeps
<1>4. ASSUME B!WritesItem(k) PROVE BridgeInv'
  <2> DEFINE c == [at |-> "item", announced |-> wrote.call[k].announced, n |-> wrote.call[k].n]
             b == wrote.call[k].announced \/ FALSE
  <2>1. wrote' = [wrote EXCEPT !.call = [wrote.call EXCEPT ![k] = c]] /\ ~wrote.over
    <3>1. /\ wrote' = [wrote EXCEPT !.call = [wrote.call EXCEPT ![k] =
                       [at |-> "item", announced |-> b, n |-> wrote.call[k].n]]]
          /\ ~wrote.over
      BY <1>4, <1>t DEF B!WritesItem, B!Writes, B!Open
    <3>2. b = wrote.call[k].announced
      BY <1>t
    <3>. HIDE DEF b
    <3>4. [at |-> "item", announced |-> b, n |-> wrote.call[k].n] = c
      BY <3>2
    <3>. QED
      BY <3>1, <3>4
  <2>2. PICK n \in Nat, told \in BOOLEAN : B!Accepts(k, B!Done(k, n, told))
    BY <1>4, <1>t DEF B!WritesItem
  <2>3. Proceeds(k, c)
    BY <2>1, <1>t DEF Proceeds, CallStates, Came
  <2>. HIDE DEF c
  <2>4. Fits(k, c, B!Done(k, n, told))
    BY DoneFits DEF c
  <2>. QED
    BY <2>1, <2>2, <2>3, <2>4, WritingKeeps
<1>. QED
  BY <1>1, <1>2, <1>3, <1>4

\* The end of the answer or of its connection is told.
LEMMA EndIsToldKeeps ==
  ASSUME BridgeInv, ~failed, NEW e \in BridgeEvents, e.type \in Ending, bridged' = Append(bridged, e),
         e.type = "translationFailed" => e = B!TranslationFailed,
         failed' <=> e.type = "translationFailed", wrote'.call = wrote.call, UNCHANGED <<tool, spoilt, held>>
  PROVE  /\ bridged' \in Seq(BridgeEvents) /\ FailsLast(bridged', failed')
         /\ \A i \in DOMAIN bridged' : bridged'[i].type = "translationFailed" => bridged'[i] = B!TranslationFailed
         /\ \A k \in Calls : B!Custom(k)' => CallInv(k, bridged, held, wrote.call, failed)'
         /\ \A i \in DOMAIN bridged : i \in DOMAIN bridged' /\ bridged'[i] = bridged[i]
         /\ \E i \in DOMAIN bridged' : bridged'[i] = e
<1>t. /\ bridged \in Seq(BridgeEvents) /\ FailsLast(bridged, failed)
      /\ \A i \in DOMAIN bridged : bridged[i].type = "translationFailed" => bridged[i] = B!TranslationFailed
      /\ \A k \in Calls : B!Custom(k) => CallInv(k, bridged, held, wrote.call, failed)
  BY DEF BridgeInv
<1>1. /\ bridged' \in Seq(BridgeEvents) /\ Len(bridged') = Len(bridged) + 1 /\ Len(bridged) \in Nat
      /\ DOMAIN bridged' = 1 .. Len(bridged) + 1 /\ DOMAIN bridged = 1 .. Len(bridged)
      /\ \A i \in DOMAIN bridged : bridged'[i] = bridged[i]
      /\ bridged'[Len(bridged) + 1] = e
  BY <1>t
<1>2. FailsLast(bridged', failed')
  BY <1>1, <1>t DEF FailsLast
<1>3. ASSUME NEW k \in Calls, B!Custom(k)' PROVE CallInv(k, bridged, held, wrote.call, failed)'
  <2>1. CallInv(k, bridged, held, wrote.call, failed)
    BY <1>3, <1>t DEF B!Custom
  <2>2. \A i \in DOMAIN bridged' : bridged'[i].type \in Inputs \cup RawEvents \cup {"item"} =>
          i \in DOMAIN bridged /\ bridged'[i] = bridged[i]
    BY <1>1 DEF Inputs, RawEvents, Ending
  <2>3. ToldOf(k, bridged, held, wrote.call)'
    BY <2>1, <2>2, <1>1 DEF CallInv, ToldOf, Came
  <2>4. InputOnce(k, bridged)'
    BY <2>1, <2>2 DEF CallInv, InputOnce
  <2>5. (~failed => /\ wrote.call[k].announced => held[k].known
                    /\ held[k].emitted => \E j \in DOMAIN bridged : bridged[j].type = "inputDone" /\ bridged[j].item = k)'
    BY <2>1, <1>1 DEF CallInv
  <2>. QED
    BY <2>1, <2>3, <2>4, <2>5 DEF CallInv
<1>. QED
  BY <1>1, <1>2, <1>3, <1>t

LEMMA EndKeeps ==
  ASSUME BridgeInv, NEW type \in {"completed", "incomplete", "failed"}, B!WritesEnd(type)
  PROVE  BridgeInv'
<1>t. /\ B!TypeOK /\ bridged \in Seq(BridgeEvents) /\ IsSaved(bridged)
      /\ \A k \in Calls : B!Custom(k) => CallInv(k, bridged, held, wrote.call, failed)
      /\ wrote \in [over : BOOLEAN, call : [Calls -> CallStates]]
  BY BridgeTypes DEF BridgeInv
<1>1. /\ wrote' = [wrote EXCEPT !.over = TRUE] /\ ~wrote.over /\ UNCHANGED <<tool, spoilt, held, link>>
      /\ wrote'.call = wrote.call /\ wrote'.over = TRUE /\ saved = B!Nothing
      /\ wrote' \in [over : BOOLEAN, call : [Calls -> CallStates]]
  BY <1>t DEF B!WritesEnd, B!Fixed, B!Open, IsSaved
<1>2. CASE failed
  <2>1. UNCHANGED <<failed, bridged, saved>>
    BY <1>2 DEF B!WritesEnd
  <2>2. B!TypeOK'
    BY <1>1, <1>t, <2>1 DEF B!TypeOK, CallStates, B!Custom
  <2>. QED
    BY <1>1, <1>t, <2>1, <2>2 DEF BridgeInv, B!Custom, CallInv, ToldOf, InputOnce, Came, FailsLast, IsSaved, B!Nothing,
       B!TranslationFailed
<1>3. CASE ~failed
  <2>1. PICK output \in {{}, B!Begun}, cut \in SUBSET {k \in B!Begun : wrote.call[k].at # "item"} :
          LET ok == \A k \in output : B!Translates(k, IF k \in cut THEN 0 ELSE 1, FALSE)
          IN IF ~ok THEN failed' = TRUE /\ bridged' = Append(bridged, B!TranslationFailed) /\ UNCHANGED saved
             ELSE /\ bridged' = Append(bridged, [type |-> type, item |-> output, n |-> 0])
                  /\ saved' = IF type = "failed" THEN saved ELSE output
                  /\ UNCHANGED failed
    BY <1>3 DEF B!WritesEnd
  <2>2. output \subseteq Calls
    BY DEF B!Begun
  <2> DEFINE ok == \A k \in output : B!Translates(k, IF k \in cut THEN 0 ELSE 1, FALSE)
             e == IF ok THEN [type |-> type, item |-> output, n |-> 0] ELSE B!TranslationFailed
  <2>3. /\ e \in BridgeEvents /\ e.type \in Ending /\ (e.type = "translationFailed" => e = B!TranslationFailed)
        /\ e.type = "translationFailed" <=> ~ok
        /\ ok => e.type = type /\ e.item = output
    BY <2>2 DEF BridgeEvents, Ending, B!TranslationFailed
  <2>4. bridged' = Append(bridged, e) /\ (failed' <=> e.type = "translationFailed") /\ failed' \in BOOLEAN
    <3>1. CASE ok
      BY <2>1, <2>3, <3>1, <1>3, <1>t DEF B!TypeOK
    <3>2. CASE ~ok
      BY <2>1, <2>3, <3>2
    <3>. QED
      BY <3>1, <3>2
  <2>5. ok => output \cap spoilt = {}
    BY <1>t DEF B!TypeOK, B!Translates, B!Recovered, B!Custom
  <2>6. saved' = IF ok /\ type # "failed" THEN output ELSE B!Nothing
    BY <2>1, <1>1
  <2>. HIDE DEF e, ok
  <2>7. /\ bridged' \in Seq(BridgeEvents) /\ FailsLast(bridged', failed')
        /\ \A i \in DOMAIN bridged' : bridged'[i].type = "translationFailed" => bridged'[i] = B!TranslationFailed
        /\ \A k \in Calls : B!Custom(k)' => CallInv(k, bridged, held, wrote.call, failed)'
        /\ \E i \in DOMAIN bridged' : bridged'[i] = e
    BY <2>3, <2>4, <1>1, <1>3, EndIsToldKeeps
  <2>8. B!TypeOK'
    BY <1>1, <1>t, <2>2, <2>4, <2>6 DEF B!TypeOK, CallStates, B!Custom
  <2>9. IsSaved(bridged)'
    <3>1. CASE ok /\ type # "failed"
      <4>1. PICK i \in DOMAIN bridged' : bridged'[i] = e
        BY <2>7
      <4>2. bridged'[i].type \in {"completed", "incomplete"} /\ bridged'[i].item = saved' /\ ~failed'
        BY <4>1, <3>1, <2>3, <2>4, <2>6
      <4>3. saved' \cap spoilt' = {}
        BY <3>1, <2>5, <2>6, <1>1
      <4>. QED
        BY <4>2, <4>3, <1>1 DEF IsSaved
    <3>2. CASE ~(ok /\ type # "failed")
      BY <3>2, <2>6 DEF IsSaved, B!Nothing
    <3>. QED
      BY <3>1, <3>2
  <2>. QED
    BY <2>7, <2>8, <2>9 DEF BridgeInv, B!TranslationFailed
<1>. QED
  BY <1>2, <1>3

LEMMA LineKeeps ==
  ASSUME BridgeInv, B!Ends \/ B!Breaks
  PROVE  BridgeInv'
<1>t. /\ B!TypeOK /\ IsSaved(bridged)
  BY DEF BridgeInv
<1>1. CASE UNCHANGED bridged /\ (B!Ends \/ B!Breaks)
  BY <1>1 DEF BridgeInv, B!Ends, B!Breaks, B!Fixed, B!TypeOK, B!Custom, CallInv, ToldOf, InputOnce, Came, FailsLast, IsSaved,
     B!Nothing, B!TranslationFailed
<1>2. CASE B!Breaks /\ ~failed
  <2> DEFINE e == [type |-> "brokenOff", item |-> {}, n |-> 0]
  <2>1. /\ bridged' = Append(bridged, e) /\ UNCHANGED <<tool, spoilt, wrote, held, failed, saved>> /\ link' = "ended"
    BY <1>2 DEF B!Breaks, B!Fixed
  <2>2. e \in BridgeEvents /\ e.type = "brokenOff" /\ e.type \in Ending
    BY DEF BridgeEvents, Ending
  <2>. HIDE DEF e
  <2>3. /\ bridged' \in Seq(BridgeEvents) /\ FailsLast(bridged', failed')
        /\ \A i \in DOMAIN bridged' : bridged'[i].type = "translationFailed" => bridged'[i] = B!TranslationFailed
        /\ \A k \in Calls : B!Custom(k)' => CallInv(k, bridged, held, wrote.call, failed)'
        /\ \A i \in DOMAIN bridged : i \in DOMAIN bridged' /\ bridged'[i] = bridged[i]
    BY <2>1, <2>2, <1>2, EndIsToldKeeps
  <2>4. B!TypeOK'
    BY <2>1, <1>t DEF B!TypeOK, B!Custom
  <2>5. IsSaved(bridged)'
    BY <2>1, <2>3, <1>t DEF IsSaved, B!Nothing
  <2>. QED
    BY <2>3, <2>4, <2>5 DEF BridgeInv, B!TranslationFailed
<1>. QED
  BY <1>1, <1>2 DEF B!Ends, B!Breaks

LEMMA InitBridgeInv == B!Init => BridgeInv
<1>. SUFFICES ASSUME B!Init PROVE BridgeInv
  OBVIOUS
<1>1. bridged = <<>> /\ DOMAIN bridged = {} /\ failed = FALSE /\ saved = B!Nothing
  BY DEF B!Init
<1>2. B!TypeOK
  <2>1. /\ wrote \in [over : BOOLEAN, call : [Calls -> [at : {"none", "added", "whole", "item"}, announced : BOOLEAN,
                                                     n : 0 .. 1]]]
        /\ held \in [Calls -> [known : BOOLEAN, n : Nat, emitted : BOOLEAN]]
    BY DEF B!Init, B!Unknown
  <2>2. tool \in [Calls -> {"native", "function", "custom"}] /\ spoilt \subseteq {k \in Calls : B!Custom(k)}
    BY DEF B!Init, B!Custom
  <2>3. failed \in BOOLEAN /\ saved \in (SUBSET Calls) \cup {B!Nothing} /\ link \in {"open", "ended"}
    BY DEF B!Init
  <2>. QED
    BY <2>1, <2>2, <2>3 DEF B!TypeOK
<1>3. \A k \in Calls : CallInv(k, bridged, held, wrote.call, failed)
  BY <1>1 DEF B!Init, B!Unknown, CallInv, ToldOf, InputOnce
<1>. QED
  BY <1>1, <1>2, <1>3 DEF BridgeInv, FailsLast, IsSaved

LEMMA NextBridgeInv == BridgeInv /\ (B!Next \/ UNCHANGED bridge) => BridgeInv'
<1>1. BridgeInv /\ UNCHANGED bridge => BridgeInv'
  BY DEF bridge, BridgeInv, B!TypeOK, B!Custom, CallInv, ToldOf, InputOnce, Came, FailsLast, IsSaved, B!Nothing,
     B!TranslationFailed
<1>. QED
  BY <1>1, CallsKeep, EndKeeps, LineKeeps DEF B!Next

LEMMA BridgeIsWhole == BridgeInv => B!TypeOK /\ B!CustomIsWhole /\ B!FailureIsLast
<1>. SUFFICES ASSUME BridgeInv PROVE B!TypeOK /\ B!CustomIsWhole /\ B!FailureIsLast
  OBVIOUS
<1>1. B!CustomIsWhole
  <2>1. ASSUME NEW k \in Calls, B!Custom(k)
        PROVE  /\ \A type \in {"inputDelta", "inputDone"} : \A i, j \in B!Of(k, {type}) : i = j
               /\ \A i \in B!Of(k, {"inputDelta", "inputDone", "item"}) : k \notin spoilt /\ bridged[i].n = 1
               /\ \A i \in B!Of(k, {"item"}) : \E j \in B!Of(k, {"inputDone"}) : j < i
               /\ wrote.call[k].announced => B!Of(k, {"rawAdded", "rawDelta", "rawDone", "rawItem"}) = {}
    <3>1. CallInv(k, bridged, held, wrote.call, failed)
      BY <2>1 DEF BridgeInv
    <3>3. \A type \in {"inputDelta", "inputDone"} : \A i, j \in B!Of(k, {type}) : i = j
      BY <3>1 DEF CallInv, InputOnce, B!Of, Inputs
    <3>4. \A i \in B!Of(k, {"inputDelta", "inputDone", "item"}) : k \notin spoilt /\ bridged[i].n = 1
      BY <3>1 DEF CallInv, ToldOf, B!Of, Inputs
    <3>5. \A i \in B!Of(k, {"item"}) : \E j \in B!Of(k, {"inputDone"}) : j < i
      BY <3>1 DEF CallInv, ToldOf, B!Of
    <3>6. wrote.call[k].announced => B!Of(k, {"rawAdded", "rawDelta", "rawDone", "rawItem"}) = {}
      BY <3>1 DEF CallInv, ToldOf, B!Of, RawEvents
    <3>. QED
      BY <3>3, <3>4, <3>5, <3>6
  <2> DEFINE P(k) ==
               /\ \A type \in {"inputDelta", "inputDone"} : \A i, j \in B!Of(k, {type}) : i = j
               /\ \A i \in B!Of(k, {"inputDelta", "inputDone", "item"}) : k \notin spoilt /\ bridged[i].n = 1
               /\ \A i \in B!Of(k, {"item"}) : \E j \in B!Of(k, {"inputDone"}) : j < i
               /\ wrote.call[k].announced => B!Of(k, {"rawAdded", "rawDelta", "rawDone", "rawItem"}) = {}
  <2>2. B!CustomIsWhole <=> \A k \in {c \in Calls : B!Custom(c)} : P(k)
    BY DEF B!CustomIsWhole
  <2>3. ASSUME NEW k \in Calls, B!Custom(k) PROVE P(k)
    BY <2>1, <2>3
  <2>. HIDE DEF P
  <2>. QED
    BY <2>2, <2>3
<1>2. B!FailureIsLast
  <2>1. B!TranslationFailed.type = "translationFailed"
    BY DEF B!TranslationFailed
  <2>2. \A i \in DOMAIN bridged : bridged[i] = B!TranslationFailed <=> failed /\ i = Len(bridged)
    BY <2>1 DEF BridgeInv, FailsLast
  <2>. QED
    BY <2>2 DEF BridgeInv, IsSaved, B!FailureIsLast
<1>. QED
  BY <1>1, <1>2 DEF BridgeInv

-----------------------------------------------------------------------------
(* The history of exchanges (ChatHistory): a record stands for one         *)
(* response, and a task that is sent one finds it until the limit is met.  *)

TalkStates == [id : Nat, platform : Providers, mode : H!Modes, calls : SUBSET H!CallRecords]
Exchanges  == [pc : H!Progress, platform : Providers, mode : H!Modes, calls : SUBSET H!CallRecords,
               outputs : SUBSET CallIds, tools : BOOLEAN]
Records    == [id : Nat, platform : Providers, calls : SUBSET H!CallRecords, tools : BOOLEAN]
HistoryConstants == MaxCached \in Nat \ {0} /\ Providers # {}

\* What a task was sent last (r), among the records and the numbers given
Remembered(r, records, numbers) ==
  /\ r.id <= numbers[r.platform]
  /\ \A i \in DOMAIN records :
       records[i].id = r.id /\ records[i].platform = r.platform => records[i].calls = r.calls
  /\ r.id # 0 /\ r.mode # "plain" =>
       \/ Len(records) = MaxCached
       \/ \E i \in DOMAIN records : records[i].id = r.id /\ records[i].platform = r.platform
\* What a task asks (e) after what it was sent (r)
Meets(e, r, records) ==
  /\ e.pc = "asked" /\ e.mode # "plain" =>
       e.outputs \subseteq H!Ids(e.calls) /\ (e.platform = r.platform => e.calls \subseteq r.calls)
  /\ e.pc = "refused" =>
       r.id = 0 \/ r.mode = "plain" \/ r.platform # e.platform \/ Len(records) = MaxCached
HistoryInv ==
  /\ talk \in [Talks -> TalkStates] /\ x \in [Talks -> Exchanges] /\ history \in Seq(Records)
  /\ issued \in [Providers -> Nat] /\ requests \in Nat
  /\ Len(history) <= MaxCached
  /\ \A i \in DOMAIN history : history[i].id \in 1 .. issued[history[i].platform]
  /\ \A t \in Talks : Remembered(talk[t], history, issued) /\ Meets(x[t], talk[t], history)

LEMMA Below == \A m, n \in Nat : m <= n /\ m # n => m + 1 <= n
OBVIOUS

\* Remembering adds one record and loses at most the oldest, and that only when the history is full.
LEMMA Remembering ==
  ASSUME HistoryConstants, history \in Seq(Records), Len(history) <= MaxCached, NEW e \in Records, H!Remembers(e)
  PROVE  /\ history' \in Seq(Records) /\ Len(history') <= MaxCached
         /\ \A i \in DOMAIN history' : history'[i] = e \/ \E j \in DOMAIN history : history'[i] = history[j]
         /\ \E i \in DOMAIN history' : history'[i] = e
         /\ Len(history) = MaxCached => Len(history') = MaxCached
         /\ Len(history) # MaxCached => \A i \in DOMAIN history : i \in DOMAIN history' /\ history'[i] = history[i]
<1>1. Len(history) \in Nat /\ DOMAIN history = 1 .. Len(history) /\ MaxCached \in Nat /\ MaxCached > 0
  BY DEF HistoryConstants
<1>2. CASE Len(history) = MaxCached
  <2>1. history' = Append(Tail(history), e)
    BY <1>2 DEF H!Remembers
  <2>2. /\ Tail(history) \in Seq(Records) /\ Len(Tail(history)) = MaxCached - 1
        /\ \A i \in 1 .. MaxCached - 1 : Tail(history)[i] = history[i + 1] /\ i + 1 \in DOMAIN history
    BY <1>1, <1>2
  <2> DEFINE rest == Tail(history)
  <2>. HIDE DEF rest
  <2>a. /\ rest \in Seq(Records) /\ Len(rest) = MaxCached - 1 /\ history' = Append(rest, e)
        /\ Len(rest) + 1 = MaxCached /\ Len(rest) \in Nat
    <3>1. rest \in Seq(Records) /\ Len(rest) = MaxCached - 1 /\ history' = Append(rest, e)
      BY <2>1, <2>2 DEF rest
    <3>2. MaxCached - 1 + 1 = MaxCached /\ MaxCached - 1 \in Nat
      BY <1>1
    <3>. QED
      BY <3>1, <3>2
  <2>b. /\ history' \in Seq(Records) /\ Len(history') = Len(rest) + 1 /\ DOMAIN history' = 1 .. Len(rest) + 1
        /\ \A i \in 1 .. Len(rest) : history'[i] = rest[i]
        /\ history'[Len(rest) + 1] = e
    BY <2>a
  <2>3. /\ history' \in Seq(Records) /\ Len(history') = MaxCached /\ DOMAIN history' = 1 .. MaxCached
        /\ \A i \in 1 .. MaxCached - 1 : history'[i] = rest[i]
        /\ history'[MaxCached] = e
    BY <2>a, <2>b
  <2>4. ASSUME NEW i \in DOMAIN history'
        PROVE  history'[i] = e \/ \E j \in DOMAIN history : history'[i] = history[j]
    <3>1. CASE i = MaxCached
      BY <3>1, <2>3
    <3>2. CASE i # MaxCached
      BY <3>2, <2>2, <2>3, <2>4, <1>1 DEF rest
    <3>. QED
      BY <3>1, <3>2
  <2>. QED
    BY <1>1, <1>2, <2>3, <2>4
<1>3. CASE Len(history) # MaxCached
  <2>1. history' = Append(history, e)
    BY <1>3 DEF H!Remembers
  <2>2. /\ history' \in Seq(Records) /\ Len(history') = Len(history) + 1 /\ DOMAIN history' = 1 .. Len(history) + 1
        /\ \A i \in DOMAIN history : history'[i] = history[i] /\ i \in DOMAIN history'
        /\ history'[Len(history) + 1] = e
    BY <1>1, <2>1
  <2>3. Len(history) + 1 <= MaxCached /\ Len(history) + 1 \in DOMAIN history'
    <3>1. Len(history) + 1 <= MaxCached
      BY <1>1, <1>3, Below, Zenon
    <3>. QED
      BY <1>1, <2>2, <3>1
  <2>4. \A i \in DOMAIN history' : i \in DOMAIN history \/ i = Len(history) + 1
    BY <1>1, <2>2
  <2>. QED
    BY <1>3, <2>2, <2>3, <2>4
<1>. QED
  BY <1>2, <1>3

\* An answer is sent to its task, or is lost on the way: the records and the numbers fit what every
\* task was sent before, and the answer itself.
LEMMA GivingKeeps ==
  ASSUME HistoryConstants, HistoryInv, NEW t \in Talks, NEW numbered \in BOOLEAN, NEW ids \in SUBSET CallIds,
         H!Gives(t, numbered, ids)
  PROVE  /\ H!Answered(t, numbered, ids) \in TalkStates
         /\ history' \in Seq(Records) /\ issued' \in [Providers -> Nat] /\ Len(history') <= MaxCached
         /\ \A i \in DOMAIN history' : history'[i].id \in 1 .. issued'[history'[i].platform]
         /\ \A r \in TalkStates : Remembered(r, history, issued) => Remembered(r, history', issued')
         /\ Remembered(H!Answered(t, numbered, ids), history', issued')
         /\ Len(history) = MaxCached => Len(history') = MaxCached
<1> DEFINE p == x[t].platform
           n == issued[p] + 1
           r == H!Answered(t, numbered, ids)
           e == [id |-> r.id, platform |-> r.platform, calls |-> r.calls, tools |-> x[t].tools]
<1>t. /\ p \in Providers /\ n \in Nat \ {0} /\ issued[p] \in Nat /\ x[t].tools \in BOOLEAN /\ x[t].mode \in H!Modes
      /\ history \in Seq(Records) /\ issued \in [Providers -> Nat] /\ Len(history) <= MaxCached
      /\ \A i \in DOMAIN history : history[i] \in Records /\ history[i].id \in 1 .. issued[history[i].platform]
  BY DEF HistoryInv, Exchanges
<1>1. /\ r \in TalkStates /\ r.platform = p /\ r.mode = x[t].mode /\ (r.id = IF numbered THEN n ELSE 0)
  <2>1. [call : ids, platform : {p}, id : {n}] \in SUBSET H!CallRecords
    BY <1>t DEF H!CallRecords
  <2>2. r = [id |-> IF numbered THEN n ELSE 0, platform |-> p, mode |-> x[t].mode,
             calls |-> [call : ids, platform : {p}, id : {n}]]
    BY DEF H!Answered
  <2> DEFINE cs == [call : ids, platform : {p}, id : {n}]
             id == IF numbered THEN n ELSE 0
  <2>3. id \in Nat
    BY <1>t
  <2>. HIDE DEF cs, id, p, n, r
  <2>4. r = [id |-> id, platform |-> p, mode |-> x[t].mode, calls |-> cs] /\ cs \in SUBSET H!CallRecords
    BY <2>1, <2>2 DEF cs, id
  <2>5. r \in TalkStates /\ r.platform = p /\ r.mode = x[t].mode /\ r.id = id
    BY <2>3, <2>4, <1>t DEF TalkStates
  <2>. QED
    BY <2>5 DEF id
<1>2. /\ issued' = [issued EXCEPT ![p] = n]
      /\ IF x[t].mode # "plain" /\ numbered THEN H!Remembers(e) ELSE history' = history
  BY DEF H!Gives, H!Keeps
<1>3. e \in Records /\ e.id = r.id /\ e.platform = p /\ e.calls = r.calls
  <2>. HIDE DEF r
  <2>. QED
    BY <1>t, <1>1 DEF Records, TalkStates
<1>. HIDE DEF p, n, r, e
<1>4. /\ issued' \in [Providers -> Nat] /\ issued'[p] = n /\ n = issued[p] + 1
      /\ \A q \in Providers : issued'[q] \in Nat /\ issued[q] <= issued'[q] /\ issued[q] \in Nat
  BY <1>t, <1>2 DEF n
<1>5. CASE x[t].mode # "plain" /\ numbered
  <2>1. /\ history' \in Seq(Records) /\ Len(history') <= MaxCached
        /\ \A i \in DOMAIN history' : history'[i] = e \/ \E j \in DOMAIN history : history'[i] = history[j]
        /\ \E i \in DOMAIN history' : history'[i] = e
        /\ Len(history) = MaxCached => Len(history') = MaxCached
        /\ Len(history) # MaxCached => \A i \in DOMAIN history : i \in DOMAIN history' /\ history'[i] = history[i]
    BY <1>2, <1>3, <1>5, <1>t, Remembering
  <2>2. e.id = n /\ r.id = n
    BY <1>1, <1>3, <1>5
  <2>3. \A i \in DOMAIN history' : history'[i].id \in 1 .. issued'[history'[i].platform]
    <3>1. ASSUME NEW i \in DOMAIN history' PROVE history'[i].id \in 1 .. issued'[history'[i].platform]
      <4>1. CASE history'[i] = e
        BY <4>1, <2>2, <1>3, <1>4, <1>t
      <4>2. ASSUME NEW j \in DOMAIN history, history'[i] = history[j] PROVE history'[i].id \in 1 .. issued'[history'[i].platform]
        <5>1. history[j].platform \in Providers /\ history[j].id \in 1 .. issued[history[j].platform]
          BY <1>t DEF Records
        <5>. QED
          BY <5>1, <4>2, <1>4
      <4>. QED
        BY <4>1, <4>2, <2>1
    <3>. QED
      BY <3>1
  <2>4. ASSUME NEW i \in DOMAIN history', history'[i] # e, history'[i].platform = p
        PROVE  history'[i].id # n /\ \E j \in DOMAIN history : history'[i] = history[j]
    <3>1. PICK j \in DOMAIN history : history'[i] = history[j]
      BY <2>1, <2>4
    <3>2. history[j].id \in 1 .. issued[p]
      BY <3>1, <2>4, <1>t
    <3>3. history[j].id # n
      BY <3>2, <1>t, <1>4
    <3>. QED
      BY <3>1, <3>3
  <2>5. ASSUME NEW q \in TalkStates, Remembered(q, history, issued) PROVE Remembered(q, history', issued')
    <3>1. q.platform \in Providers /\ q.id \in Nat /\ q.id <= issued[q.platform]
      BY <2>5 DEF TalkStates, Remembered
    <3>2. q.id <= issued'[q.platform]
      <4>1. /\ issued[q.platform] \in Nat /\ issued'[q.platform] \in Nat
            /\ issued[q.platform] <= issued'[q.platform]
        BY <3>1, <1>4
      <4>. QED
        BY <3>1, <4>1
    <3>3. ASSUME NEW i \in DOMAIN history', history'[i].id = q.id, history'[i].platform = q.platform
          PROVE  history'[i].calls = q.calls
      <4>1. history'[i] # e
        BY <3>3, <3>1, <2>2, <1>3, <1>4
      <4>2. PICK j \in DOMAIN history : history'[i] = history[j]
        BY <4>1, <2>1
      <4>. QED
        BY <4>2, <3>3, <2>5 DEF Remembered
    <3>4. ASSUME q.id # 0, q.mode # "plain"
          PROVE  \/ Len(history') = MaxCached
                 \/ \E i \in DOMAIN history' : history'[i].id = q.id /\ history'[i].platform = q.platform
      BY <3>4, <2>5, <2>1 DEF Remembered
    <3>. QED
      BY <3>2, <3>3, <3>4 DEF Remembered
  <2>6. Remembered(r, history', issued')
    <3>1. r.id <= issued'[r.platform]
      BY <1>1, <1>t, <2>2, <1>4
    <3>2. \A i \in DOMAIN history' : history'[i].id = r.id /\ history'[i].platform = r.platform => history'[i].calls = r.calls
      BY <2>4, <2>2, <1>1, <1>3
    <3>3. \E i \in DOMAIN history' : history'[i].id = r.id /\ history'[i].platform = r.platform
      BY <2>1, <2>2, <1>1, <1>3
    <3>. QED
      BY <3>1, <3>2, <3>3 DEF Remembered
  <2>. QED
    BY <1>1, <1>4, <2>1, <2>3, <2>5, <2>6 DEF r
<1>6. CASE ~(x[t].mode # "plain" /\ numbered)
  <2>1. history' = history
    BY <1>2, <1>6
  <2>2. \A i \in DOMAIN history : history[i].platform \in Providers /\ history[i].id \in 1 .. issued[history[i].platform]
    BY <1>t DEF Records
  <2>3. \A i \in DOMAIN history : history[i].id \in 1 .. issued'[history[i].platform]
    BY <2>2, <1>4
  <2>4. ASSUME NEW q \in TalkStates, Remembered(q, history, issued) PROVE Remembered(q, history, issued')
    <3>1. q.platform \in Providers /\ q.id \in Nat /\ q.id <= issued[q.platform]
      BY <2>4 DEF TalkStates, Remembered
    <3>2. q.id <= issued'[q.platform]
      <4>1. /\ issued[q.platform] \in Nat /\ issued'[q.platform] \in Nat
            /\ issued[q.platform] <= issued'[q.platform]
        BY <3>1, <1>4
      <4>. QED
        BY <3>1, <4>1
    <3>. QED
      BY <3>2, <2>4 DEF Remembered
  <2>5. Remembered(r, history, issued')
    <3>1. r.id <= issued'[r.platform]
      BY <1>1, <1>t, <1>4
    <3>2. \A i \in DOMAIN history : ~(history[i].id = r.id /\ history[i].platform = r.platform)
      BY <1>1, <1>4, <2>2
    <3>3. r.id = 0 \/ r.mode = "plain"
      BY <1>1, <1>6
    <3>. QED
      BY <3>1, <3>2, <3>3 DEF Remembered
  <2>. QED
    BY <1>1, <1>4, <1>t, <2>1, <2>3, <2>4, <2>5 DEF r
<1>. QED
  BY <1>5, <1>6

\* What a request is completed with: every result gets a call, and while the task stays with its
\* platform it is the call the task was sent.
LEMMA Recalling ==
  ASSUME HistoryInv, NEW t \in Talks, NEW input \in H!Inputs(t), NEW p \in Providers
  PROVE  /\ input.calls \subseteq talk[t].calls /\ input.outputs \subseteq H!Ids(talk[t].calls)
         /\ input.calls \in SUBSET H!CallRecords /\ input.outputs \in SUBSET CallIds
         /\ H!Recalled(input, talk[t].id, p) \in SUBSET H!CallRecords
         /\ p = talk[t].platform => H!Recalled(input, talk[t].id, p) \subseteq talk[t].calls
         /\ H!Restores(input, talk[t].id, p) =>
              input.outputs \subseteq H!Ids(input.calls \cup H!Recalled(input, talk[t].id, p))
         /\ ~H!Restores(input, talk[t].id, p) =>
              talk[t].id = 0 \/ talk[t].mode = "plain" \/ talk[t].platform # p \/ Len(history) = MaxCached
<1> DEFINE recalled == H!Recalled(input, talk[t].id, p)
<1>t. /\ talk[t] \in TalkStates /\ history \in Seq(Records) /\ Remembered(talk[t], history, issued)
      /\ talk[t].calls \in SUBSET H!CallRecords
  BY DEF HistoryInv, TalkStates
<1>1. input.calls \in {{}, talk[t].calls} /\ input.outputs \in SUBSET H!Ids(talk[t].calls)
  BY DEF H!Inputs
<1>2. H!Ids(talk[t].calls) \subseteq CallIds
  BY <1>t DEF H!Ids, H!CallRecords
<1>3. \A c : c \in recalled <=> /\ \E i \in DOMAIN history : /\ history[i].id = talk[t].id /\ history[i].platform = p
                                                            /\ c \in history[i].calls
                                /\ c.call \in H!Missing(input)
  <2>1. recalled = {c \in UNION {history[i].calls : i \in H!Found(talk[t].id, p)} : c.call \in H!Missing(input)}
    BY DEF H!Recalled
  <2>2. \A c : c \in UNION {history[i].calls : i \in H!Found(talk[t].id, p)} <=>
               \E i \in DOMAIN history : /\ history[i].id = talk[t].id /\ history[i].platform = p
                                         /\ c \in history[i].calls
    BY Zenon DEF H!Found
  <2>. QED
    BY <2>1, <2>2, Zenon
<1>. HIDE DEF recalled
<1>4. recalled \in SUBSET H!CallRecords
  <2>1. \A i \in DOMAIN history : history[i].calls \in SUBSET H!CallRecords
    <3>1. \A i \in DOMAIN history : history[i] \in Records
      BY <1>t
    <3>. QED
      BY <3>1 DEF Records
  <2>. QED
    BY <1>3, <2>1
<1>5. p = talk[t].platform => recalled \subseteq talk[t].calls
  BY <1>3, <1>t DEF Remembered
<1>6. \A cs : \A k : k \in H!Ids(cs) <=> \E c \in cs : k = c.call
  BY Zenon DEF H!Ids
<1>7. H!Restores(input, talk[t].id, p) => input.outputs \subseteq H!Ids(input.calls \cup recalled)
  <2>1. H!Restores(input, talk[t].id, p) <=> input.outputs \ H!Ids(input.calls) \subseteq H!Ids(recalled)
    BY DEF H!Restores, H!Missing, recalled
  <2>. QED
    <3>1. ASSUME NEW k \in input.outputs, input.outputs \ H!Ids(input.calls) \subseteq H!Ids(recalled)
          PROVE  k \in H!Ids(input.calls \cup recalled)
      <4>1. k \in H!Ids(input.calls) \/ k \in H!Ids(recalled)
        BY <3>1
      <4>2. PICK c \in input.calls \cup recalled : k = c.call
        BY <4>1, <1>6
      <4>. QED
        BY <4>2, <1>6
    <3>. QED
      BY <2>1, <3>1
<1>8. ASSUME ~H!Restores(input, talk[t].id, p), talk[t].id # 0, talk[t].mode # "plain", talk[t].platform = p,
             Len(history) # MaxCached
      PROVE  FALSE
  <2>1. PICK i \in DOMAIN history : history[i].id = talk[t].id /\ history[i].platform = p /\ history[i].calls = talk[t].calls
    BY <1>8, <1>t DEF Remembered
  <2>2. H!Missing(input) \subseteq H!Ids(talk[t].calls)
    BY <1>1 DEF H!Missing
  <2>3. H!Missing(input) \subseteq H!Ids(recalled)
    <3>1. ASSUME NEW k \in H!Missing(input) PROVE k \in H!Ids(recalled)
      <4>1. PICK c \in talk[t].calls : k = c.call
        BY <2>2, <1>6
      <4>2. c \in recalled
        BY <4>1, <2>1, <1>3
      <4>. QED
        BY <4>1, <4>2, <1>6
    <3>. QED
      BY <3>1
  <2>. QED
    BY <2>3, <1>8 DEF H!Restores, recalled
<1>. QED
  BY <1>1, <1>2, <1>4, <1>5, <1>7, <1>8, <1>t DEF recalled

LEMMA AskKeeps ==
  ASSUME HistoryInv, NEW t \in Talks, H!Ask(t)
  PROVE  HistoryInv'
<1>1. PICK input \in H!Inputs(t), p \in Providers, mode \in H!Modes, declares \in BOOLEAN, fit \in BOOLEAN :
        LET id == talk[t].id
            restores == H!Restores(input, id, p)
            sends == fit /\ (mode = "plain" \/ restores)
            bridges == sends /\ mode # "plain"
        IN x' = [x EXCEPT ![t] =
             [pc |-> IF ~fit THEN "failed" ELSE IF sends THEN "asked" ELSE "refused",
              platform |-> p, mode |-> mode, outputs |-> input.outputs,
              calls |-> input.calls \cup (IF bridges THEN H!Recalled(input, id, p) ELSE {}),
              tools |-> IF bridges THEN H!Equipped(declares, id, p) ELSE declares]]
  BY DEF H!Ask
<1>2. requests' = requests + 1 /\ UNCHANGED <<talk, history, issued>>
  BY DEF H!Ask
<1> DEFINE recalled == H!Recalled(input, talk[t].id, p)
           restores == H!Restores(input, talk[t].id, p)
           sends == fit /\ (mode = "plain" \/ restores)
           bridges == sends /\ mode # "plain"
           stage == IF ~fit THEN "failed" ELSE IF sends THEN "asked" ELSE "refused"
           calls == input.calls \cup (IF bridges THEN recalled ELSE {})
           tools_ == IF bridges THEN H!Equipped(declares, talk[t].id, p) ELSE declares
           e == [pc |-> stage, platform |-> p, mode |-> mode, outputs |-> input.outputs, calls |-> calls, tools |-> tools_]
<1>3. x' = [x EXCEPT ![t] = e]
  BY <1>1
<1>4. /\ input.calls \subseteq talk[t].calls /\ input.calls \in SUBSET H!CallRecords /\ input.outputs \in SUBSET CallIds
      /\ recalled \in SUBSET H!CallRecords /\ (p = talk[t].platform => recalled \subseteq talk[t].calls)
      /\ restores => input.outputs \subseteq H!Ids(input.calls \cup recalled)
      /\ ~restores => talk[t].id = 0 \/ talk[t].mode = "plain" \/ talk[t].platform # p \/ Len(history) = MaxCached
  BY Recalling
<1>5. tools_ \in BOOLEAN /\ stage \in H!Progress
  <2>1. H!Equipped(declares, talk[t].id, p) \in BOOLEAN
    BY DEF H!Equipped
  <2>. QED
    BY <2>1 DEF H!Progress
<1>. HIDE DEF recalled, restores, tools_
<1>6. calls \in SUBSET H!CallRecords /\ (p = talk[t].platform => calls \subseteq talk[t].calls)
  BY <1>4
<1>7. stage = "asked" /\ mode # "plain" => input.outputs \subseteq H!Ids(calls)
  <2>1. ASSUME stage = "asked", mode # "plain" PROVE input.outputs \subseteq H!Ids(calls)
    <3>1. restores /\ calls = input.calls \cup recalled
      BY <2>1
    <3>. HIDE DEF calls
    <3>. QED
      BY <3>1, <1>4
  <2>. QED
    BY <2>1
<1>8. stage = "refused" => ~restores
  OBVIOUS
<1>. HIDE DEF calls, stage, sends, bridges
<1>9. e \in Exchanges /\ e.pc = stage /\ e.platform = p /\ e.mode = mode /\ e.outputs = input.outputs /\ e.calls = calls
  BY <1>4, <1>5, <1>6 DEF Exchanges
<1>. HIDE DEF e
<1>10. Meets(e, talk[t], history)
  BY <1>4, <1>6, <1>7, <1>8, <1>9 DEF Meets
<1>11. x' \in [Talks -> Exchanges] /\ \A q \in Talks : Meets(x'[q], talk[q], history)
  <2>1. x \in [Talks -> Exchanges] /\ \A q \in Talks : Meets(x[q], talk[q], history)
    BY DEF HistoryInv
  <2>. QED
    BY <1>3, <1>9, <1>10, <2>1
<1>. QED
  BY <1>2, <1>11 DEF HistoryInv, Remembered, Meets

\* An exchange that is over asks for nothing.
LEMMA IdleMeets ==
  ASSUME HistoryConstants
  PROVE  H!Idle \in Exchanges /\ \A r, records : Meets(H!Idle, r, records)
<1>1. H!SomePlatform \in Providers
  BY DEF H!SomePlatform, HistoryConstants
<1>. QED
  BY <1>1 DEF H!Idle, Exchanges, Meets, H!Progress, H!Modes

LEMMA AnswerKeeps ==
  ASSUME HistoryConstants, HistoryInv, NEW t \in Talks, H!Answer(t)
  PROVE  HistoryInv'
<1>1. PICK numbered \in BOOLEAN, ids \in SUBSET CallIds :
        H!Gives(t, numbered, ids) /\ talk' = [talk EXCEPT ![t] = H!Answered(t, numbered, ids)]
  BY DEF H!Answer
<1>2. requests' = requests
  BY DEF H!Answer
<1> DEFINE r == H!Answered(t, numbered, ids)
<1>3. x' = [x EXCEPT ![t] = H!Idle] /\ talk' = [talk EXCEPT ![t] = r]
  BY <1>1 DEF H!Gives
<1>4. /\ r \in TalkStates
      /\ history' \in Seq(Records) /\ issued' \in [Providers -> Nat] /\ Len(history') <= MaxCached
      /\ \A i \in DOMAIN history' : history'[i].id \in 1 .. issued'[history'[i].platform]
      /\ \A q \in TalkStates : Remembered(q, history, issued) => Remembered(q, history', issued')
      /\ Remembered(r, history', issued') /\ (Len(history) = MaxCached => Len(history') = MaxCached)
  BY <1>1, GivingKeeps
<1>. HIDE DEF r
<1>5. /\ talk \in [Talks -> TalkStates] /\ x \in [Talks -> Exchanges] /\ requests \in Nat
      /\ \A q \in Talks : Remembered(talk[q], history, issued) /\ Meets(x[q], talk[q], history)
  BY DEF HistoryInv
<1>6. \A q \in Talks : Remembered(talk'[q], history', issued')
  BY <1>3, <1>4, <1>5
<1>7. \A q \in Talks : Meets(x'[q], talk'[q], history')
  <2>1. ASSUME NEW q \in Talks PROVE Meets(x'[q], talk'[q], history')
    <3>1. CASE q = t
      BY <3>1, <1>3, <1>5, IdleMeets
    <3>2. CASE q # t
      <4>1. x'[q] = x[q] /\ talk'[q] = talk[q]
        BY <3>2, <1>3, <1>5
      <4>. QED
        BY <4>1, <1>4, <1>5 DEF Meets
    <3>. QED
      BY <3>1, <3>2
  <2>. QED
    BY <2>1
<1>8. talk' \in [Talks -> TalkStates] /\ x' \in [Talks -> Exchanges]
  BY <1>3, <1>4, <1>5, IdleMeets
<1>. QED
  BY <1>2, <1>4, <1>5, <1>6, <1>7, <1>8 DEF HistoryInv, Remembered, Meets

LEMMA LeaveKeeps ==
  ASSUME HistoryConstants, HistoryInv, NEW t \in Talks, H!Leave(t)
  PROVE  HistoryInv'
<1>1. /\ talk \in [Talks -> TalkStates] /\ x \in [Talks -> Exchanges] /\ requests \in Nat
      /\ \A q \in Talks : Remembered(talk[q], history, issued) /\ Meets(x[q], talk[q], history)
  BY DEF HistoryInv
<1>2. x' = [x EXCEPT ![t] = H!Idle] /\ UNCHANGED <<talk, requests>>
  BY DEF H!Leave, H!Gives
<1>3. /\ history' \in Seq(Records) /\ issued' \in [Providers -> Nat] /\ Len(history') <= MaxCached
      /\ \A i \in DOMAIN history' : history'[i].id \in 1 .. issued'[history'[i].platform]
      /\ \A q \in TalkStates : Remembered(q, history, issued) => Remembered(q, history', issued')
      /\ Len(history) = MaxCached => Len(history') = MaxCached
  <2>1. CASE UNCHANGED <<history, issued>>
    BY <2>1 DEF HistoryInv
  <2>2. ASSUME NEW numbered \in BOOLEAN, NEW ids \in SUBSET CallIds, H!Gives(t, numbered, ids)
        PROVE  /\ history' \in Seq(Records) /\ issued' \in [Providers -> Nat] /\ Len(history') <= MaxCached
               /\ \A i \in DOMAIN history' : history'[i].id \in 1 .. issued'[history'[i].platform]
               /\ \A q \in TalkStates : Remembered(q, history, issued) => Remembered(q, history', issued')
               /\ Len(history) = MaxCached => Len(history') = MaxCached
    BY <2>2, GivingKeeps
  <2>. QED
    BY <2>1, <2>2 DEF H!Leave
<1>4. x' \in [Talks -> Exchanges] /\ \A q \in Talks : Meets(x'[q], talk[q], history')
  <2>1. ASSUME NEW q \in Talks PROVE Meets(x'[q], talk[q], history')
    <3>1. CASE q = t
      BY <3>1, <1>1, <1>2, IdleMeets
    <3>2. CASE q # t
      <4>1. x'[q] = x[q]
        BY <3>2, <1>1, <1>2
      <4>. QED
        BY <4>1, <1>1, <1>3 DEF Meets
    <3>. QED
      BY <3>1, <3>2
  <2>. QED
    BY <2>1, <1>1, <1>2, IdleMeets
<1>. QED
  BY <1>1, <1>2, <1>3, <1>4 DEF HistoryInv, Remembered, Meets

\* A request that fails, or whose error has been read, asks for nothing more.
LEMMA EndingKeeps ==
  ASSUME HistoryConstants, HistoryInv, NEW t \in Talks, H!Fail(t) \/ H!Settle(t)
  PROVE  HistoryInv'
<1> DEFINE e == x'[t]
<1>1. x \in [Talks -> Exchanges] /\ \A q \in Talks : Meets(x[q], talk[q], history)
  BY DEF HistoryInv
<1>2. /\ e \in Exchanges /\ x' = [x EXCEPT ![t] = e] /\ UNCHANGED <<talk, history, issued, requests>>
      /\ e.pc \notin {"asked", "refused"}
  <2>1. CASE H!Fail(t)
    <3> DEFINE d == [x[t] EXCEPT !.pc = "failed"]
    <3>1. d \in Exchanges /\ d.pc = "failed"
      BY <1>1 DEF Exchanges, H!Progress
    <3>2. x' = [x EXCEPT ![t] = d]
      BY <2>1 DEF H!Fail
    <3>. HIDE DEF d
    <3>. QED
      BY <1>1, <2>1, <3>1, <3>2 DEF H!Fail
  <2>2. CASE H!Settle(t)
    <3>1. H!Idle.pc = "idle" /\ H!Idle \in Exchanges
      BY IdleMeets DEF H!Idle
    <3>2. x' = [x EXCEPT ![t] = H!Idle] /\ UNCHANGED <<talk, history, issued, requests>>
      BY <2>2 DEF H!Settle
    <3>. QED
      BY <1>1, <3>1, <3>2
  <2>. QED
    BY <2>1, <2>2
<1>. HIDE DEF e
<1>3. x' \in [Talks -> Exchanges] /\ \A q \in Talks : Meets(x'[q], talk[q], history)
  <2>1. Meets(e, talk[t], history)
    BY <1>2 DEF Meets
  <2>. QED
    BY <1>1, <1>2, <2>1
<1>. QED
  BY <1>2, <1>3 DEF HistoryInv, Remembered, Meets

LEMMA InitHistoryInv == ASSUME HistoryConstants PROVE H!Init => HistoryInv
<1>. SUFFICES ASSUME H!Init PROVE HistoryInv
  OBVIOUS
<1> DEFINE r == [id |-> 0, platform |-> H!SomePlatform, mode |-> "plain", calls |-> {}]
<1>1. /\ talk = [t \in Talks |-> r] /\ x = [t \in Talks |-> H!Idle]
      /\ history = <<>> /\ DOMAIN history = {} /\ Len(history) = 0
      /\ issued = [p \in Providers |-> 0] /\ requests = 0
  BY DEF H!Init
<1>2. /\ r \in TalkStates /\ r.id = 0 /\ r.platform \in Providers
  BY DEF TalkStates, H!SomePlatform, HistoryConstants, H!Modes
<1>. HIDE DEF r
<1>3. Remembered(r, history, issued)
  BY <1>1, <1>2 DEF Remembered
<1>4. 0 <= MaxCached
  BY DEF HistoryConstants
<1>. QED
  BY <1>1, <1>2, <1>3, <1>4, IdleMeets DEF HistoryInv

LEMMA NextHistoryInv ==
  ASSUME HistoryConstants PROVE HistoryInv /\ (H!Next \/ UNCHANGED exchanges) => HistoryInv'
<1>1. HistoryInv /\ UNCHANGED exchanges => HistoryInv'
  BY DEF exchanges, HistoryInv, Remembered, Meets
<1>. QED
  BY <1>1, AskKeeps, AnswerKeeps, LeaveKeeps, EndingKeeps DEF H!Next

LEMMA HistoryIsWhole == HistoryInv => H!TypeOK /\ H!ResultsMeetCalls
<1>1. HistoryInv => H!TypeOK
  BY DEF HistoryInv, H!TypeOK, TalkStates, Exchanges, Records
<1>2. HistoryInv => H!ResultsMeetCalls
  BY DEF HistoryInv, Meets, H!ResultsMeetCalls
<1>. QED
  BY <1>1, <1>2

\* A step of a keeper leaves the bridge and the exchanges alone, and each of these leaves the other.
LEMMA StepsOfAnswers ==
  [MCNext]_all => (B!Next \/ UNCHANGED bridge) /\ (H!Next \/ UNCHANGED exchanges)
BY DEF MCNext, CatalogNext, CatalogRest, ExtraNext, ContextNext, ResponseNext, ChatNext, BridgeNext, ExchangesNext,
  all, answers

WholeInv == BridgeInv /\ HistoryInv

THEOREM AnswersInvariant == MCSpec => []WholeInv
<1>1. HistoryConstants
  BY Constants DEF HistoryConstants, H!HistoryConstants
<1>2. MCInit => WholeInv
  BY <1>1, InitBridgeInv, InitHistoryInv DEF MCInit, WholeInv
<1>3. WholeInv /\ [MCNext]_all => WholeInv'
  BY <1>1, StepsOfAnswers, NextBridgeInv, NextHistoryInv DEF WholeInv
<1>. QED
  BY <1>2, <1>3, PTL DEF MCSpec

\* Whatever the platform writes of a call, and wherever the answer ends, a custom call reaches Codex
\* once, whole and never after a failed translation; and whatever ids the platforms give, a tool result
\* reaches the model with the call it answers, or is refused only for a record that cannot be there.
THEOREM AnswersArePassedWhole == MCSpec => []AnswersAreWhole
<1>1. WholeInv => AnswersAreWhole
  BY BridgeIsWhole, HistoryIsWhole DEF WholeInv, AnswersAreWhole
<1>. QED
  BY <1>1, AnswersInvariant, PTL

-----------------------------------------------------------------------------
(* The context windows (CodexContext): the migration has ended before      *)
(* anything may be saved, and knows what it writes over.                   *)

Configs      == [root : {None, Own, Managed}, nested : BOOLEAN, edit : Nat]
StoreRecords == [version : 3 .. 5, overrides : X!Windows, previous : {"absent", Own, Managed}]
Memories     == [overrides : X!Windows, previous : {"absent", Own, Managed}, needs : BOOLEAN,
                 storeBlocked : BOOLEAN, blocked : BOOLEAN]
Unblocked == mem # None /\ ~mem.storeBlocked /\ ~mem.blocked

\* The types of what is read and known
ContextTypes ==
  /\ config \in Configs /\ edits \in Nat /\ config.edit <= edits /\ raced \in BOOLEAN /\ first \in BOOLEAN
  /\ store \notin {None, Bad} => store \in StoreRecords
  /\ mem # None \/ at # "idle" => mem \in Memories
  /\ at \notin {"idle", "capture"} => seen.config \in Configs /\ seen.config.edit <= edits
\* Once the first migration is over and nothing blocks the manager, config.toml points to no catalogue of
\* an earlier release, and no later migration has read one that does.
Migrated ==
  /\ at \in {"check", "persist"} => config.root # Managed
  /\ Unblocked /\ (at = "idle" \/ ~first) => config.root # Managed
  /\ Unblocked /\ ~first /\ at \notin {"idle", "capture"} => seen.config.root # Managed
\* A file that is about to be written still has the text that was read, or a change has come between.
Compared == at \in {"write", "restore"} => raced \/ config.edit = seen.config.edit
ContextInv == ContextTypes /\ Migrated /\ Compared

LEMMA RestoredConfig ==
  ASSUME Managed \notin {None, Own}, NEW c \in Configs
  PROVE  /\ X!Restored(c) \in Configs /\ X!Restored(c).root # Managed /\ X!Restored(c).edit = c.edit
         /\ X!Restored(c) = c => c.root # Managed
<1> DEFINE root == IF c.root = Managed THEN X!SafePrevious ELSE c.root
<1>1. root \in {None, Own, Managed} /\ root # Managed
  BY DEF Configs, X!SafePrevious
<1>2. X!Restored(c) = [root |-> root, nested |-> FALSE, edit |-> c.edit] /\ c.edit \in Nat
  BY DEF X!Restored, Configs
<1>. HIDE DEF root
<1>3. X!Restored(c) \in Configs /\ X!Restored(c).root = root /\ X!Restored(c).edit = c.edit
  BY <1>1, <1>2 DEF Configs
<1>. QED
  BY <1>1, <1>3

LEMMA NormalizedMemory ==
  ASSUME ContextTypes PROVE X!Normalized \in Memories
<1>1. X!NoOverrides \in X!Windows
  BY DEF X!NoOverrides, X!Windows
<1>2. X!Blank \in Memories
  BY <1>1 DEF X!Blank, Memories
<1>3. [X!Blank EXCEPT !.storeBlocked = TRUE] \in Memories
  <2>. HIDE DEF X!Blank
  <2>. QED
    BY <1>2 DEF Memories
<1>4. CASE store \notin {None, Bad}
  <2>1. store \in StoreRecords
    BY <1>4 DEF ContextTypes
  <2> DEFINE needs == store.version # 5
  <2>2. needs \in BOOLEAN
    OBVIOUS
  <2>. HIDE DEF needs
  <2>3. [overrides |-> store.overrides, previous |-> store.previous, needs |-> needs,
         storeBlocked |-> FALSE, blocked |-> FALSE] \in Memories
    BY <2>1, <2>2 DEF StoreRecords, Memories
  <2>. QED
    BY <1>4, <2>3 DEF X!Normalized, needs
<1>5. CASE store \in {None, Bad}
  BY <1>2, <1>3, <1>5 DEF X!Normalized
<1>. QED
  BY <1>4, <1>5

\* A migration that gives up: if it was the first, nothing is written from now on.
LEMMA GivingUpKeeps ==
  ASSUME ContextInv, at \notin {"idle"}, X!Failed, UNCHANGED <<store, first, edits, raced>>,
         config' \in Configs, config'.edit <= edits, ~first /\ Unblocked => config'.root # Managed
  PROVE  ContextInv'
<1>t. /\ mem \in Memories /\ first \in BOOLEAN /\ ContextTypes /\ Migrated
      /\ mem.storeBlocked \in BOOLEAN /\ mem.blocked \in BOOLEAN
  BY DEF ContextInv, ContextTypes, Memories
<1>1. /\ at' = "idle" /\ mem' \in Memories
      /\ (mem' = mem /\ ~first) \/ mem'.blocked = TRUE
  BY <1>t DEF X!Failed, Memories
<1>2. ContextTypes'
  BY <1>1, <1>t DEF ContextTypes
<1>3. Unblocked' => config'.root # Managed
  BY <1>1, <1>t DEF Unblocked, Migrated
<1>. QED
  BY <1>1, <1>2, <1>3 DEF ContextInv, Migrated, Compared

LEMMA MigratingKeeps ==
  ASSUME Managed \notin {None, Own}, ContextInv,
         X!Initialize \/ X!Refresh \/ X!Capture \/ X!Compare \/ X!WriteConfig \/ X!CheckStore \/ X!Undo
  PROVE  ContextInv'
<1>t. /\ ContextTypes /\ Migrated /\ Compared /\ config \in Configs /\ config.edit <= edits
      /\ (at # "idle" => mem \in Memories)
  BY DEF ContextInv, ContextTypes
<1>1. CASE X!Initialize
  <2>1. /\ mem = None /\ mem' = X!Normalized /\ first' = TRUE /\ UNCHANGED <<config, store, seen, edits, raced>>
        /\ at' = IF X!Synced(mem') THEN "capture" ELSE "idle"
    BY <1>1 DEF X!Initialize, X!files, X!bounds
  <2>2. mem' \in Memories
    BY <2>1, <1>t, NormalizedMemory
  <2>3. at' = "idle" => ~Unblocked'
    BY <2>1 DEF X!Synced, Unblocked
  <2>. QED
    BY <2>1, <2>2, <2>3, <1>t DEF ContextInv, ContextTypes, Migrated, Compared
<1>2. CASE X!Refresh
  <2>1. /\ mem # None /\ at = "idle" /\ X!Synced(mem) /\ at' = "capture" /\ first' = FALSE
        /\ UNCHANGED <<config, store, mem, seen, edits, raced>>
    BY <1>2 DEF X!Refresh, X!files, X!bounds
  <2>2. config.root # Managed
    BY <2>1, <1>t DEF Migrated, Unblocked, X!Synced
  <2>. QED
    BY <2>1, <2>2, <1>t DEF ContextInv, ContextTypes, Migrated, Compared
<1>3. CASE X!Capture
  <2>1. /\ at = "capture" /\ seen' = [config |-> config, store |-> store]
        /\ UNCHANGED <<config, store, first, edits, raced>> /\ mem \in Memories
    BY <1>3, <1>t DEF X!Capture, X!files, X!bounds
  <2>2. CASE X!Failed
    <3>1. ~first /\ Unblocked => config'.root # Managed
      BY <2>1, <1>t DEF Migrated
    <3>. QED
      BY <2>1, <2>2, <3>1, <1>t, GivingUpKeeps
  <2>3. ASSUME at' = "idle", UNCHANGED mem, config.root # Managed PROVE ContextInv'
    BY <2>1, <2>3, <1>t DEF ContextInv, ContextTypes, Migrated, Compared, Unblocked
  <2>4. ASSUME at' = (IF X!Restored(config) # config THEN "compare" ELSE "check"), UNCHANGED mem PROVE ContextInv'
    <3>1. at' = "check" => config.root # Managed
      BY <2>4, <1>t, RestoredConfig
    <3>2. seen'.config = config /\ at' \in {"compare", "check"}
      BY <2>1, <2>4
    <3>3. Unblocked' /\ ~first => config.root # Managed
      BY <2>1, <2>4, <1>t DEF Migrated, Unblocked
    <3>. QED
      BY <2>1, <2>4, <3>1, <3>2, <3>3, <1>t DEF ContextInv, ContextTypes, Migrated, Compared
  <2>5. \/ X!Failed \/ (at' = "idle" /\ UNCHANGED mem /\ config.root # Managed)
        \/ (at' = (IF X!Restored(config) # config THEN "compare" ELSE "check") /\ UNCHANGED mem)
    BY <1>3 DEF X!Capture
  <2>. QED
    BY <2>2, <2>3, <2>4, <2>5
<1>4. CASE X!Compare
  <2>1. at = "compare" /\ UNCHANGED <<config, store, first, seen, edits, raced>> /\ mem \in Memories
    BY <1>4, <1>t DEF X!Compare, X!files, X!bounds
  <2>2. CASE X!Failed
    <3>1. ~first /\ Unblocked => config'.root # Managed
      BY <2>1, <1>t DEF Migrated
    <3>. QED
      BY <2>1, <2>2, <3>1, <1>t, GivingUpKeeps
  <2>3. ASSUME config = seen.config, at' = "write", UNCHANGED mem PROVE ContextInv'
    BY <2>1, <2>3, <1>t DEF ContextInv, ContextTypes, Migrated, Compared, Unblocked
  <2>. QED
    BY <2>2, <2>3, <1>4 DEF X!Compare
<1>5. CASE X!WriteConfig
  <2>1. /\ at = "write" /\ config' = X!Restored(seen.config) /\ at' = "check" /\ mem \in Memories
        /\ UNCHANGED <<store, mem, first, seen, edits, raced>> /\ seen.config \in Configs
    BY <1>5, <1>t DEF X!WriteConfig, X!bounds, ContextTypes
  <2>2. config' \in Configs /\ config'.root # Managed /\ config'.edit = seen.config.edit
    BY <2>1, RestoredConfig
  <2>3. config'.edit <= edits
    BY <2>1, <2>2, <1>t DEF ContextTypes
  <2>. QED
    BY <2>1, <2>2, <2>3, <1>t DEF ContextInv, ContextTypes, Migrated, Compared, Unblocked
<1>6. CASE X!CheckStore
  <2>1. at = "check" /\ UNCHANGED <<config, store, first, seen, edits, raced>> /\ mem \in Memories /\ config.root # Managed
    BY <1>6, <1>t DEF X!CheckStore, X!files, X!bounds, Migrated
  <2>2. CASE X!Failed
    BY <2>1, <2>2, <1>t, GivingUpKeeps
  <2>3. ASSUME at' \in {"idle", "persist", "undo"}, UNCHANGED mem PROVE ContextInv'
    BY <2>1, <2>3, <1>t DEF ContextInv, ContextTypes, Migrated, Compared, Unblocked
  <2>. QED
    BY <2>2, <2>3, <1>6 DEF X!CheckStore, X!Thrown
<1>7. CASE X!Undo
  <2>1. at = "undo" /\ UNCHANGED <<config, store, first, seen, edits, raced>> /\ mem \in Memories /\ seen.config \in Configs
    BY <1>7, <1>t DEF X!Undo, X!files, X!bounds, ContextTypes
  <2>2. CASE X!Failed
    <3>1. ~first /\ Unblocked => config'.root # Managed
      BY <2>1, <1>t DEF Migrated
    <3>. QED
      BY <2>1, <2>2, <3>1, <1>t, GivingUpKeeps
  <2>3. ASSUME X!Undone, at' = "restore", UNCHANGED mem PROVE ContextInv'
    <3>1. config.edit = seen.config.edit
      BY <2>1, <2>3, RestoredConfig DEF X!Undone
    <3>. QED
      BY <2>1, <2>3, <3>1, <1>t DEF ContextInv, ContextTypes, Migrated, Compared, Unblocked
  <2>. QED
    BY <2>2, <2>3, <1>7 DEF X!Undo
<1>. QED
  BY <1>1, <1>2, <1>3, <1>4, <1>5, <1>6, <1>7

LEMMA EndingMigrationKeeps ==
  ASSUME Managed \notin {None, Own}, ContextInv, X!Persist \/ X!RestoreConfig \/ X!WriteFails
  PROVE  ContextInv'
<1>t. /\ ContextTypes /\ Migrated /\ Compared /\ config \in Configs /\ config.edit <= edits
      /\ (at # "idle" => mem \in Memories)
  BY DEF ContextInv, ContextTypes
<1>1. CASE X!Persist
  <2>1. /\ at = "persist" /\ at' = "idle" /\ mem \in Memories /\ config.root # Managed
        /\ store' = X!Stored(5, mem.overrides, "absent")
        /\ mem' = [overrides |-> mem.overrides, previous |-> "absent", needs |-> FALSE,
                   storeBlocked |-> mem.storeBlocked, blocked |-> mem.blocked]
        /\ UNCHANGED <<config, first, seen, edits, raced>>
    BY <1>1, <1>t DEF X!Persist, X!bounds, Migrated
  <2>2. mem' \in Memories
    BY <2>1 DEF Memories
  <2>3. store' \in StoreRecords
    BY <2>1 DEF X!Stored, Memories, StoreRecords
  <2>. QED
    BY <2>1, <2>2, <2>3, <1>t DEF ContextInv, ContextTypes, Migrated, Compared
<1>2. CASE X!RestoreConfig
  <2>1. /\ at = "restore" /\ config' = seen.config /\ X!Failed /\ UNCHANGED <<store, first, seen, edits, raced>>
        /\ seen.config \in Configs /\ seen.config.edit <= edits
    BY <1>2, <1>t DEF X!RestoreConfig, X!bounds, ContextTypes
  <2>2. ~first /\ Unblocked => config'.root # Managed
    BY <2>1, <1>t DEF Migrated
  <2>. QED
    BY <2>1, <2>2, GivingUpKeeps
<1>3. CASE X!WriteFails
  <2>1. /\ at \in {"write", "persist", "restore"} /\ UNCHANGED <<config, store, first, seen, edits, raced>>
        /\ mem \in Memories
    BY <1>3, <1>t DEF X!WriteFails, X!files
  <2>2. CASE X!Failed
    <3>1. ~first /\ Unblocked => config'.root # Managed
      BY <2>1, <1>t DEF Migrated
    <3>. QED
      BY <2>1, <2>2, <3>1, <1>t, GivingUpKeeps
  <2>3. ASSUME at' = "undo", UNCHANGED mem PROVE ContextInv'
    BY <2>1, <2>3, <1>t DEF ContextInv, ContextTypes, Migrated, Compared, Unblocked
  <2>. QED
    BY <2>2, <2>3, <1>3 DEF X!WriteFails, X!Thrown
<1>. QED
  BY <1>1, <1>2, <1>3

LEMMA OthersKeep ==
  ASSUME Managed \notin {None, Own}, ContextInv, X!SaveOverrides \/ X!Environment
  PROVE  ContextInv'
<1>t. /\ ContextTypes /\ Migrated /\ Compared /\ config \in Configs /\ config.edit <= edits /\ edits \in Nat
      /\ config.edit \in Nat /\ config.root \in {None, Own, Managed} /\ config.nested \in BOOLEAN
  BY DEF ContextInv, ContextTypes, Configs
<1>1. CASE X!SaveOverrides
  <2>1. PICK overrides \in X!Windows :
          /\ store' = X!Stored(5, overrides, "absent") /\ mem' = [mem EXCEPT !.overrides = overrides]
    BY <1>1 DEF X!SaveOverrides
  <2>2. /\ mem # None /\ at = "idle" /\ edits' = edits + 1 /\ UNCHANGED <<config, at, first, seen, raced>>
        /\ X!Writable /\ mem \in Memories
    BY <1>1, <1>t DEF X!SaveOverrides, ContextTypes
  <2>3. store' \in StoreRecords
    BY <2>1 DEF X!Stored, StoreRecords
  <2>4. mem' \in Memories
    BY <2>1, <2>2 DEF Memories
  <2>5. config.root # Managed
    BY <2>2, <1>t DEF Migrated, Unblocked, X!Writable
  <2>. QED
    BY <2>2, <2>3, <2>4, <2>5, <1>t DEF ContextInv, ContextTypes, Migrated, Compared
<1>2. CASE X!EditConfig
  <2>1. PICK root \in {None, Own, config.root} : config' = [root |-> root, nested |-> config.nested, edit |-> edits + 1]
    BY <1>2 DEF X!EditConfig
  <2>2. /\ edits' = edits + 1 /\ UNCHANGED <<store, mem, at, first, seen>>
        /\ raced' = (raced \/ at \in {"write", "persist", "restore"})
    BY <1>2 DEF X!EditConfig, X!Comparing
  <2>3. /\ config' \in Configs /\ config'.edit = edits + 1
        /\ config.root # Managed => config'.root # Managed
    BY <2>1, <1>t DEF Configs
  <2>4. ContextTypes'
    BY <2>2, <2>3, <1>t DEF ContextTypes, Configs
  <2>5. Migrated'
    BY <2>2, <2>3, <1>t DEF Migrated, Unblocked
  <2>6. Compared'
    BY <2>2 DEF Compared
  <2>. QED
    BY <2>4, <2>5, <2>6 DEF ContextInv
<1>3. CASE X!EditStore
  <2>1. PICK overrides \in X!Windows : store' = [store EXCEPT !.overrides = overrides]
    BY <1>3 DEF X!EditStore
  <2>2. /\ store \in StoreRecords /\ edits' = edits + 1 /\ UNCHANGED <<config, mem, at, first, seen>>
        /\ raced' = (raced \/ at \in {"write", "persist", "restore"})
    BY <1>3, <1>t DEF X!EditStore, X!Comparing, ContextTypes
  <2>3. store' \in StoreRecords
    BY <2>1, <2>2 DEF StoreRecords
  <2>. QED
    BY <2>2, <2>3, <1>t DEF ContextInv, ContextTypes, Configs, Migrated, Unblocked, Compared
<1>4. CASE X!CatalogChanges
  <2>1. edits' = edits + 1 /\ UNCHANGED <<config, store, mem, at, first, seen, raced>>
    BY <1>4 DEF X!CatalogChanges
  <2>. QED
    BY <2>1, <1>t DEF ContextInv, ContextTypes, Configs, Migrated, Unblocked, Compared
<1>5. CASE X!Crash
  <2>1. mem' = None /\ at' = "idle" /\ first' = FALSE /\ UNCHANGED <<config, store, edits, raced>>
    BY <1>5 DEF X!Crash, X!files
  <2>. QED
    BY <2>1, <1>t DEF ContextInv, ContextTypes, Migrated, Unblocked, Compared
<1>. QED
  BY <1>1, <1>2, <1>3, <1>4, <1>5 DEF X!Environment

LEMMA InitContextInv == X!Init => ContextInv
<1>. SUFFICES ASSUME X!Init PROVE ContextInv
  OBVIOUS
<1>1. /\ config \in [root : {None, Own, Managed}, nested : BOOLEAN, edit : {0}] /\ store \in X!Stores
      /\ mem = None /\ at = "idle" /\ first = FALSE /\ edits = 0 /\ raced = FALSE
  BY DEF X!Init
<1>2. config \in Configs /\ config.edit = 0
  BY <1>1 DEF Configs
<1>3. ASSUME store \notin {None, Bad} PROVE store \in StoreRecords
  <2>1. CASE store \in {X!Stored(v, w, "absent") : v \in 3 .. 5, w \in X!Windows}
    BY <2>1 DEF X!Stored, StoreRecords
  <2>2. CASE store \in {X!Stored(3, w, p) : p \in {Own, Managed}, w \in X!Windows}
    BY <2>2 DEF X!Stored, StoreRecords
  <2>. QED
    BY <1>1, <1>3, <2>1, <2>2 DEF X!Stores
<1>4. ContextTypes
  <2>0. config.edit <= edits
    <3>1. edits = 0 /\ config.edit = 0
      BY <1>1, <1>2
    <3>. QED
      BY <3>1
  <2>1. edits \in Nat /\ raced \in BOOLEAN /\ first \in BOOLEAN
    BY <1>1
  <2>2. ~(mem # None \/ at # "idle") /\ ~(at \notin {"idle", "capture"})
    BY <1>1
  <2>. QED
    BY <1>2, <1>3, <2>0, <2>1, <2>2 DEF ContextTypes
<1>5. Migrated /\ Compared
  BY <1>1 DEF Migrated, Unblocked, Compared
<1>. QED
  BY <1>4, <1>5 DEF ContextInv

LEMMA NextContextInv ==
  ASSUME Managed \notin {None, Own} PROVE ContextInv /\ (X!Next \/ UNCHANGED windows) => ContextInv'
<1>1. ContextInv /\ UNCHANGED windows => ContextInv'
  BY DEF windows, ContextInv, ContextTypes, Migrated, Unblocked, Compared
<1>. QED
  BY <1>1, MigratingKeeps, EndingMigrationKeeps, OthersKeep DEF X!Next

\* Only the end of a migration, a save and another injector write the store.
LEMMA PreviousIsKept ==
  ASSUME Managed \notin {None, Own}, ContextInv, X!Next
  PROVE  config'.root = Managed /\ store \notin {None, Bad} /\ store.previous = Own => store'.previous = Own
<1>. SUFFICES ASSUME store' # store, store \notin {None, Bad}
              PROVE  config'.root = Managed /\ store.previous = Own => store'.previous = Own
  OBVIOUS
<1>t. ContextTypes /\ Migrated
  BY DEF ContextInv
<1>1. CASE X!Persist
  BY <1>1, <1>t DEF X!Persist, Migrated
<1>2. CASE X!SaveOverrides
  BY <1>2, <1>t DEF X!SaveOverrides, X!Writable, Migrated, Unblocked
<1>3. CASE X!EditStore
  <2>1. PICK overrides \in X!Windows : store' = [store EXCEPT !.overrides = overrides]
    BY <1>3 DEF X!EditStore
  <2>2. store \in StoreRecords
    BY <1>t DEF ContextTypes
  <2>. QED
    BY <2>1, <2>2 DEF StoreRecords
<1>. QED
  BY <1>1, <1>2, <1>3 DEF X!Next, X!Initialize, X!Refresh, X!Capture, X!Compare, X!WriteConfig, X!CheckStore, X!Undo,
     X!RestoreConfig, X!WriteFails, X!Environment, X!EditConfig, X!CatalogChanges, X!Crash, X!files

\* Only the migration and its undoing write an earlier text of config.toml.
LEMMA EditIsKept ==
  ASSUME Managed \notin {None, Own}, ContextInv, X!Next
  PROVE  config'.edit < config.edit => raced
<1>. SUFFICES ASSUME config' # config, config'.edit < config.edit
              PROVE  raced
  <2>1. config' = config => ~(config'.edit < config.edit)
    BY DEF ContextInv, ContextTypes, Configs
  <2>. QED
    BY <2>1
<1>t. ContextTypes /\ Compared /\ config.edit \in Nat /\ config.edit <= edits /\ edits \in Nat
  BY DEF ContextInv, ContextTypes, Configs
<1>1. CASE X!WriteConfig
  <2>1. at = "write" /\ config' = X!Restored(seen.config) /\ seen.config \in Configs
    BY <1>1, <1>t DEF X!WriteConfig, ContextTypes
  <2>2. config'.edit = seen.config.edit
    BY <2>1, RestoredConfig
  <2>. QED
    BY <2>1, <2>2, <1>t DEF Compared
<1>2. CASE X!RestoreConfig
  BY <1>2, <1>t DEF X!RestoreConfig, Compared
<1>3. CASE X!EditConfig
  <2>1. PICK root : config' = [root |-> root, nested |-> config.nested, edit |-> edits + 1]
    BY <1>3 DEF X!EditConfig
  <2>. QED
    BY <2>1, <1>t
<1>. QED
  BY <1>1, <1>2, <1>3 DEF X!Next, X!Initialize, X!Refresh, X!SaveOverrides, X!Capture, X!Compare, X!CheckStore, X!Persist,
     X!Undo, X!WriteFails, X!Environment, X!EditStore, X!CatalogChanges, X!Crash, X!files

LEMMA StepsOfWindows == [MCNext]_all => X!Next \/ UNCHANGED X!vars
BY DEF MCNext, CatalogNext, CatalogRest, ExtraNext, ContextNext, ResponseNext, ChatNext, BridgeNext, ExchangesNext,
  all, keepers, windows, X!vars

THEOREM ContextInvariant == MCSpec => []ContextInv
<1>1. Managed \notin {None, Own}
  BY Constants DEF X!ContextConstants
<1>2. MCInit => ContextInv
  BY InitContextInv DEF MCInit
<1>3. ContextInv /\ [MCNext]_all => ContextInv'
  BY <1>1, StepsOfWindows, NextContextInv DEF X!vars, windows
<1>. QED
  BY <1>2, <1>3, PTL DEF MCSpec

\* No crash, failed migration or save makes the setting unrecoverable that an earlier release replaced,
\* and a change another writes to config.toml is undone only if it falls between a comparison and its
\* rename.
THEOREM SettingsOfUserStand == MCSpec => SettingsStand
<1>1. Managed \notin {None, Own}
  BY Constants DEF X!ContextConstants
<1>2. ContextInv /\ [MCNext]_all =>
        [config'.root = Managed /\ store \notin {None, Bad} /\ store.previous = Own => store'.previous = Own]_(X!vars)
  BY <1>1, StepsOfWindows, PreviousIsKept
<1>3. ContextInv /\ [MCNext]_all => [config'.edit < config.edit => raced]_(X!vars)
  BY <1>1, StepsOfWindows, EditIsKept
<1>. QED
  BY <1>2, <1>3, ContextInvariant, PTL DEF MCSpec, SettingsStand, X!KeepsPrevious, X!EditsStand
================================================================================
