---------------------------- MODULE BrandsProofs ----------------------------
(***************************************************************************)
(* Proofs about Brands, for any set of requests and any fields.            *)
(*                                                                         *)
(* UpdatesSurvive speaks of the row alone and is not inductive: a request  *)
(* between findById and the UPDATE of save() holds a copy that it will     *)
(* write over the row.  The invariant therefore says of that copy what     *)
(* UpdatesSurvive says of the row (CopiesKeepUpdates), that a row which    *)
(* differs from the one save() has SELECTed was changed by an overlapping  *)
(* request (LoadedIsCurrent), and, for DeactivatedStays, that an update    *)
(* can revive the brand only by having overlapped every acknowledged       *)
(* deactivate().  History (who preceded whom) only ever names requests     *)
(* that have ended.                                                        *)
(***************************************************************************)
EXTENDS Brands, TLAPS

Saving(w) == pc[w] \in {"load", "write"}

\* Field f of the configuration c still shows what u, or a later request, set.
Holds(c, u, f) ==
    \/ c[f] = u
    \/ \E v \in Requests : f \in given[v] /\ c[f] = v /\ Precedes(u, v)

Excused(u) == \E v \in Requests : kind[v] # "create" /\ Overlap(u, v)

Revivable(u) == \E v \in Requests : kind[v] = "update" /\ Overlap(u, v)

HistoryInv ==
    \A v \in Requests : /\ \A u \in before[v] : pc[u] \in Ended
                        /\ pc[v] = "new" => before[v] = {}

KindInv ==
    \A w \in Requests :
        /\ pc[w] = "insert" => kind[w] = "create"
        /\ pc[w] = "find" \/ Saving(w) => kind[w] \in {"update", "deactivate"}
        /\ kind[w] = "deactivate" => given[w] = {}
        /\ pc[w] = "new" => given[w] = {} /\ kind[w] = None

RowInv ==
    \A w \in Requests :
        /\ Saving(w) => row # None /\ entity[w] # None
        /\ pc[w] = "write" => loaded[w] # None
        /\ pc[w] = "ok" => row # None

\* What a copy about to be saved still shows of the acknowledged updates.
CopiesKeepUpdates ==
    \A w \in Requests : Saving(w) =>
        /\ \A f \in given[w] : entity[w].config[f] = w
        /\ \A u \in Requests : \A f \in given[u] :
              pc[u] = "ok" => Holds(entity[w].config, u, f) \/ Excused(u)

\* The row has changed since save() has SELECTed it only through a request
\* that overlaps this one.
LoadedIsCurrent ==
    \A w \in Requests : pc[w] = "write" =>
        /\ row.config = loaded[w].config \/ Excused(w)
        /\ ~loaded[w].active => ~row.active \/ Revivable(w)

\* A copy with active = TRUE is that of an update, which overlapped every
\* acknowledged deactivate() or one that such an update undid.
CopiesStayInactive ==
    \A w \in Requests : Saving(w) =>
        /\ kind[w] = "deactivate" => ~entity[w].active
        /\ kind[w] = "update" =>
              \A u \in Requests : kind[u] = "deactivate" /\ pc[u] = "ok" => Revivable(u)

IInv == /\ TypeOK
        /\ HistoryInv
        /\ KindInv
        /\ RowInv
        /\ CopiesKeepUpdates
        /\ LoadedIsCurrent
        /\ CopiesStayInactive
        /\ UpdatesSurvive
        /\ DeactivatedStays
----------------------------------------------------------------------------
\* A step of x moves x on, out of a state that no request ends in; what x is
\* about is settled when it begins, and other requests are not touched.
LEMMA StepShape ==
    ASSUME TypeOK, NEW x \in Requests, Step(x)
    PROVE  /\ pc[x] \notin Ended
           /\ pc'[x] \in Ended \cup {"insert", "find", "load", "write"}
           /\ \A y \in Requests \ {x} :
                 /\ pc'[y] = pc[y]
                 /\ kind'[y] = kind[y]
                 /\ given'[y] = given[y]
                 /\ entity'[y] = entity[y]
                 /\ loaded'[y] = loaded[y]
                 /\ before'[y] = before[y]
           /\ pc[x] # "new" =>
                 kind'[x] = kind[x] /\ given'[x] = given[x] /\ before'[x] = before[x]
<1> USE DEF TypeOK, Goto, Ended
<1>1. CASE Receive(x)
  BY <1>1 DEF Receive
<1>2. CASE Create(x)
  BY <1>2 DEF Create
<1>3. CASE Find(x)
  BY <1>3 DEF Find
<1>4. CASE Load(x)
  BY <1>4 DEF Load
<1>5. CASE Write(x)
  BY <1>5 DEF Write
<1>6. CASE DbFails(x)
  BY <1>6 DEF DbFails
<1>7. QED
  BY <1>1, <1>2, <1>3, <1>4, <1>5, <1>6 DEF Step

\* Merging a dto gives a configuration.
LEMMA MergeType ==
    ASSUME TypeOK, NEW u \in Requests, NEW config \in [Fields -> Requests \cup {Default}]
    PROVE  /\ Merge(config, u) \in [Fields -> Requests \cup {Default}]
           /\ NewConfig(u) \in [Fields -> Requests \cup {Default}]
BY DEF Merge, NewConfig

\* What findById found is a row, and the changed copy is one too: an update
\* merges its dto, deactivate() clears the flag.
LEMMA ChangedType ==
    ASSUME TypeOK, NEW u \in Requests, row # None
    PROVE  /\ Changed(u) \in Rows
           /\ kind[u] = "update" =>
                 Changed(u).config = Merge(row.config, u) /\ Changed(u).active = row.active
           /\ kind[u] # "update" =>
                 Changed(u).config = row.config /\ Changed(u).active = FALSE
<1>1. row \in Rows
  BY DEF TypeOK
<1>2. Merge(row.config, u) \in [Fields -> Requests \cup {Default}]
  BY <1>1, MergeType DEF Rows
<1>3. QED
  BY <1>1, <1>2 DEF Changed, Rows

\* The UPDATE of save() leaves a row.
LEMMA StoredType ==
    ASSUME TypeOK, RowInv, NEW u \in Requests, pc[u] = "write"
    PROVE  Stored(u) \in Rows
<1>1. row \in Rows /\ entity[u] \in Rows /\ loaded[u] \in Rows
  BY DEF TypeOK, RowInv, Saving
<1>2. QED
  BY <1>1 DEF Stored, Rows

\* Every step of a request keeps the types.
LEMMA TypeKept ==
    ASSUME TypeOK, RowInv, NEW x \in Requests, Step(x)
    PROVE  TypeOK'
<1> USE DEF Goto, Ended
<1>1. CASE Receive(x)
  BY <1>1 DEF Receive, TypeOK, Fields
<1>2. CASE Create(x)
  <2>1. NewConfig(x) \in [Fields -> Requests \cup {Default}]
    BY DEF NewConfig
  <2>2. [active |-> TRUE, config |-> NewConfig(x)] \in Rows
    BY <2>1 DEF Rows
  <2>3. QED
    BY <1>2, <2>2 DEF Create, TypeOK
<1>3. CASE Find(x)
  BY <1>3, ChangedType DEF Find, TypeOK
<1>4. CASE Load(x)
  BY <1>4 DEF Load, TypeOK
<1>5. CASE Write(x)
  BY <1>5, StoredType DEF Write, TypeOK
<1>6. CASE DbFails(x)
  <2>1. NewConfig(x) \in [Fields -> Requests \cup {Default}]
    BY DEF NewConfig
  <2>2. [active |-> TRUE, config |-> NewConfig(x)] \in Rows
    BY <2>1 DEF Rows
  <2>3. row' \in Rows \cup {None}
    BY <1>6, <2>2, StoredType DEF DbFails, TypeOK
  <2>4. QED
    BY <1>6, <2>3 DEF DbFails, TypeOK
<1>7. QED
  BY <1>1, <1>2, <1>3, <1>4, <1>5, <1>6 DEF Step

\* Only requests that have ended come before another one.
LEMMA HistoryKept ==
    ASSUME TypeOK, HistoryInv, NEW x \in Requests, Step(x)
    PROVE  HistoryInv'
<1> SUFFICES ASSUME NEW v \in Requests
             PROVE  /\ \A u \in before'[v] : pc'[u] \in Ended
                    /\ pc'[v] = "new" => before'[v] = {}
  BY DEF HistoryInv
<1>1. pc'[x] # "new" /\ pc[x] \notin Ended
  BY StepShape DEF Ended
<1>2. CASE before'[v] = before[v]
  BY <1>1, <1>2, StepShape DEF HistoryInv, TypeOK
<1>3. CASE before'[v] # before[v]
  <2>1. v = x /\ Receive(x)
    BY <1>3, StepShape DEF Step, Create, Find, Load, Write, DbFails
  <2>2. before'[v] = {u \in Requests : pc[u] \in Ended}
    BY <2>1 DEF Receive, TypeOK
  <2>3. QED
    BY <1>1, <2>1, <2>2, StepShape
<1>4. QED
  BY <1>2, <1>3

\* A request keeps to the calls of its kind.
LEMMA KindKept ==
    ASSUME TypeOK, KindInv, NEW x \in Requests, Step(x)
    PROVE  KindInv'
<1> SUFFICES ASSUME NEW w \in Requests PROVE
        /\ pc'[w] = "insert" => kind'[w] = "create"
        /\ pc'[w] \in {"find", "load", "write"} => kind'[w] \in {"update", "deactivate"}
        /\ kind'[w] = "deactivate" => given'[w] = {}
        /\ pc'[w] = "new" => given'[w] = {} /\ kind'[w] = None
  BY DEF KindInv, Saving
<1>1. CASE w # x
  BY <1>1, StepShape DEF KindInv, Saving
<1>2. CASE w = x /\ Receive(x)
  BY <1>2 DEF Receive, Goto, Kinds, TypeOK
<1>3. CASE w = x /\ ~Receive(x)
  BY <1>3 DEF Step, Create, Find, Load, Write, DbFails, Goto, KindInv, Saving, TypeOK
<1>4. QED
  BY <1>1, <1>2, <1>3

\* A row is never removed.
LEMMA RowStays ==
    ASSUME TypeOK, RowInv, NEW x \in Requests, Step(x), row # None
    PROVE  row' # None
BY StoredType, NoRowAssumption
DEF Step, Receive, Create, Find, Load, Write, DbFails

\* The row, once there, stays, and a request at work has found it.
LEMMA RowKept ==
    ASSUME TypeOK, RowInv, NEW x \in Requests, Step(x)
    PROVE  RowInv'
<1> SUFFICES ASSUME NEW w \in Requests PROVE
        /\ pc'[w] \in {"load", "write"} => row' # None /\ entity'[w] # None
        /\ pc'[w] = "write" => loaded'[w] # None
        /\ pc'[w] = "ok" => row' # None
  BY DEF RowInv, Saving
<1>1. CASE w # x
  BY <1>1, StepShape, RowStays DEF RowInv, Saving
<1>2. CASE w = x
  <2>1. CASE Receive(x)
    BY <1>2, <2>1 DEF Receive, Goto, TypeOK
  <2>2. CASE Create(x)
    <3>1. NewConfig(x) \in [Fields -> Requests \cup {Default}]
      BY DEF NewConfig
    <3>2. [active |-> TRUE, config |-> NewConfig(x)] \in Rows
      BY <3>1 DEF Rows
    <3>3. [active |-> TRUE, config |-> NewConfig(x)] # None
      BY <3>2, NoRowAssumption
    <3>4. QED
      BY <1>2, <2>2, <3>3 DEF Create, Goto, TypeOK
  <2>3. CASE Find(x)
    <3>1. row # None => Changed(x) \in Rows
      BY ChangedType
    <3>2. row # None => Changed(x) # None
      BY <3>1, NoRowAssumption
    <3>3. QED
      BY <1>2, <2>3, <3>2 DEF Find, Goto, TypeOK
  <2>4. CASE Load(x)
    BY <1>2, <2>4 DEF Load, Goto, TypeOK, RowInv, Saving
  <2>5. CASE Write(x)
    BY <1>2, <2>5, StoredType, NoRowAssumption DEF Write, Goto, TypeOK
  <2>6. CASE DbFails(x)
    BY <1>2, <2>6 DEF DbFails, Goto, TypeOK
  <2>7. QED
    BY <2>1, <2>2, <2>3, <2>4, <2>5, <2>6 DEF Step
<1>3. QED
  BY <1>1, <1>2

\* Overlapping is for good, and so are the excuses drawn from it.
LEMMA HistoryStable ==
    ASSUME TypeOK, HistoryInv, KindInv, NEW x \in Requests, Step(x)
    PROVE  /\ \A u, v \in Requests : Precedes(u, v) => Precedes(u, v)' /\ given'[v] = given[v]
           /\ \A u, v \in Requests : Overlap(u, v) => Overlap(u, v)' /\ kind'[v] = kind[v]
           /\ \A u \in Requests : Excused(u) => Excused(u)'
           /\ \A u \in Requests : Revivable(u) => Revivable(u)'
           /\ \A u \in Requests, f \in Fields, c \in [Fields -> Requests \cup {Default}] :
                 Holds(c, u, f) => Holds(c, u, f)'
<1>1. \A v \in Requests : pc[v] # "new" =>
         pc'[v] # "new" /\ before'[v] = before[v] /\ kind'[v] = kind[v] /\ given'[v] = given[v]
  BY StepShape DEF Ended
<1>2. \A u, v \in Requests : Precedes(u, v) => Precedes(u, v)' /\ given'[v] = given[v]
  BY <1>1 DEF Precedes, HistoryInv
<1>3. \A u, v \in Requests : Overlap(u, v) => Overlap(u, v)' /\ kind'[v] = kind[v]
  BY <1>1 DEF Overlap, Precedes
<1>4. \A u \in Requests : Excused(u) => Excused(u)'
  BY <1>3 DEF Excused
<1>5. \A u \in Requests : Revivable(u) => Revivable(u)'
  BY <1>3 DEF Revivable
<1>6. \A u \in Requests, f \in Fields, c \in [Fields -> Requests \cup {Default}] :
                 Holds(c, u, f) => Holds(c, u, f)'
  BY <1>2 DEF Holds
<1>7. QED
  BY <1>2, <1>3, <1>4, <1>5, <1>6

\* The row changes only when it is created or when a save() writes it.
LEMMA RowChange ==
    ASSUME TypeOK, RowInv, NEW x \in Requests, Step(x)
    PROVE  row' = row \/ row = None \/ (pc[x] = "write" /\ row' = Stored(x))
BY DEF Step, Receive, Create, Find, Load, Write, DbFails

\* Two requests under way at the same time overlap, now and after the step.
LEMMA UnderWayOverlap ==
    ASSUME TypeOK, HistoryInv, NEW x \in Requests, Step(x), pc[x] # "new",
           NEW w \in Requests, w # x, pc[w] # "new", pc[w] \notin Ended
    PROVE  Overlap(w, x)' /\ Overlap(x, w)'
<1>1. x \notin before[w] /\ w \notin before[x]
  BY StepShape DEF HistoryInv
<1>2. before'[w] = before[w] /\ before'[x] = before[x] /\ pc'[w] # "new" /\ pc'[x] # "new"
  BY StepShape DEF Ended
<1>3. QED
  BY <1>1, <1>2 DEF Overlap, Precedes

\* A request about to save has in its copy what was acknowledged.
LEMMA CopiesKept ==
    ASSUME IInv, NEW x \in Requests, Step(x)
    PROVE  CopiesKeepUpdates'
<1> USE DEF IInv
<1>s. /\ \A u \in Requests : Excused(u) => Excused(u)'
      /\ \A u \in Requests, f \in Fields, c \in [Fields -> Requests \cup {Default}] :
            Holds(c, u, f) => Holds(c, u, f)'
  BY HistoryStable
<1>t. TypeOK'
  BY TypeKept
<1> SUFFICES ASSUME NEW w \in Requests, Saving(w)'
             PROVE  /\ \A f \in given'[w] : entity'[w].config[f] = w
                    /\ \A u \in Requests : \A f \in given'[u] :
                          pc'[u] = "ok" => Holds(entity[w].config, u, f)' \/ Excused(u)'
  BY DEF CopiesKeepUpdates
<1>1. CASE w # x \/ Load(x)
  <2>1. /\ Saving(w) \/ (w = x /\ Load(x))
        /\ entity'[w] = entity[w] /\ given'[w] = given[w]
    BY <1>1, StepShape DEF Saving, Load
  <2>2. Saving(w)
    BY <2>1 DEF Saving, Load
  <2>3. entity[w].config \in [Fields -> Requests \cup {Default}]
    BY <2>2 DEF TypeOK, RowInv, Rows
  <2>4. \A f \in given'[w] : entity'[w].config[f] = w
    BY <2>1, <2>2 DEF CopiesKeepUpdates
  <2>5. ASSUME NEW u \in Requests, NEW f \in given'[u], pc'[u] = "ok", u # x
        PROVE  Holds(entity[w].config, u, f)' \/ Excused(u)'
    <3>1. pc[u] = "ok" /\ f \in given[u] /\ f \in Fields
      BY <2>5, StepShape DEF TypeOK
    <3>2. Holds(entity[w].config, u, f) \/ Excused(u)
      BY <2>2, <3>1 DEF CopiesKeepUpdates
    <3>3. Holds(entity[w].config, u, f) => Holds(entity[w].config, u, f)'
      BY <1>s, <2>1, <2>3, <3>1 DEF Holds
    <3>4. QED
      BY <1>s, <3>2, <3>3
  <2>6. ASSUME pc'[x] = "ok"
        PROVE  Excused(x)'
    <3>1. pc[x] # "new" /\ w # x
      BY <1>1, <2>6 DEF Step, Receive, Create, Find, Load, Write, DbFails, Goto, TypeOK, Saving
    <3>2. pc[w] # "new" /\ pc[w] \notin Ended
      BY <2>2 DEF Saving, Ended
    <3>3. Overlap(x, w)'
      BY <3>1, <3>2, UnderWayOverlap
    <3>4. kind'[w] # "create"
      BY <2>2, <3>1, StepShape DEF KindInv
    <3>5. QED
      BY <3>3, <3>4 DEF Excused
  <2>7. QED
    BY <2>4, <2>5, <2>6
<1>2. CASE w = x /\ ~Load(x)
  <2>1. Find(x) /\ row # None /\ entity'[x] = Changed(x)
    BY <1>2 DEF Saving, Step, Receive, Create, Find, Load, Write, DbFails, Goto, TypeOK
  <2>2. pc[x] = "find" /\ pc'[x] # "ok" /\ given' = given /\ kind' = kind
    BY <1>2, <2>1 DEF Find, Goto, TypeOK, Saving
  <2>3. row.config \in [Fields -> Requests \cup {Default}]
    BY <2>1 DEF TypeOK, Rows
  <2>4. \A f \in Fields : entity'[x].config[f] = IF f \in given[x] THEN x ELSE row.config[f]
    <3>1. CASE kind[x] = "update"
      <4>1. entity'[x].config = Merge(row.config, x)
        BY <2>1, <3>1, ChangedType
      <4>2. QED
        BY <4>1 DEF Merge
    <3>2. CASE kind[x] # "update"
      <4>1. given[x] = {}
        BY <2>2, <3>2 DEF KindInv
      <4>2. QED
        BY <2>1, <3>2, <4>1, ChangedType
    <3>3. QED
      BY <3>1, <3>2
  <2>5. \A f \in given'[x] : entity'[x].config[f] = x
    BY <2>2, <2>4 DEF TypeOK
  <2>6. ASSUME NEW u \in Requests, NEW f \in given'[u], pc'[u] = "ok"
        PROVE  Holds(entity[x].config, u, f)' \/ Excused(u)'
    <3>1. u # x /\ pc[u] = "ok" /\ f \in given[u] /\ f \in Fields
      BY <2>2, <2>6, StepShape DEF TypeOK
    <3>2. before'[x] = before[x] /\ before'[u] = before[u] /\ pc'[x] # "new" /\ x \notin before[u]
      BY <2>2, <3>1, StepShape DEF HistoryInv, Ended
    <3>3. CASE f \in given[x]
      <4>1. entity'[x].config[f] = x
        BY <2>4, <3>1, <3>3
      <4>2. CASE u \in before[x]
        BY <2>2, <3>2, <3>3, <4>1, <4>2 DEF Holds, Precedes
      <4>3. CASE u \notin before[x]
        <5>1. Overlap(u, x)'
          BY <2>6, <3>1, <3>2, <4>3 DEF Overlap, Precedes
        <5>2. kind'[x] # "create"
          BY <2>2 DEF KindInv
        <5>3. QED
          BY <5>1, <5>2 DEF Excused
      <4>4. QED
        BY <4>2, <4>3
    <3>4. CASE f \notin given[x]
      <4>1. Holds(row.config, u, f) \/ Excused(u)
        BY <3>1 DEF UpdatesSurvive, Holds, Excused
      <4>2. entity'[x].config[f] = row.config[f]
        BY <2>4, <3>1, <3>4
      <4>3. Holds(row.config, u, f) => Holds(entity[x].config, u, f)'
        BY <4>2, HistoryStable DEF Holds
      <4>4. QED
        BY <1>s, <4>1, <4>3
    <3>5. QED
      BY <3>3, <3>4
  <2>7. QED
    BY <1>2, <2>5, <2>6
<1>3. QED
  BY <1>1, <1>2

\* The UPDATE writes such a copy, or leaves the configuration alone.
LEMMA UpdatesKept ==
    ASSUME IInv, NEW x \in Requests, Step(x)
    PROVE  UpdatesSurvive'
<1> USE DEF IInv
<1>s. /\ \A u \in Requests : Excused(u) => Excused(u)'
      /\ \A u, v \in Requests : Precedes(u, v) => Precedes(u, v)' /\ given'[v] = given[v]
  BY HistoryStable
<1> SUFFICES ASSUME NEW u \in Requests, NEW f \in given'[u], pc'[u] = "ok"
             PROVE  Holds(row.config, u, f)' \/ Excused(u)'
  BY DEF UpdatesSurvive, Holds, Excused
<1>1. CASE u = x
  <2>1. pc[x] # "new" /\ given'[x] = given[x] /\ f \in given[x] /\ f \in Fields
    BY <1>1, StepShape DEF Step, Receive, Create, Find, Load, Write, DbFails, Goto, TypeOK
  <2>2. Create(x) \/ Write(x)
    BY <1>1 DEF Step, Receive, Create, Find, Load, Write, DbFails, Goto, TypeOK
  <2>3. CASE Create(x)
    BY <1>1, <2>1, <2>3 DEF Create, Goto, TypeOK, NewConfig, Holds
  <2>4. CASE Write(x)
    <3>1. Saving(x) /\ pc[x] = "write" /\ row' = Stored(x)
      BY <2>4 DEF Write, Saving
    <3>2. entity[x].config[f] = x
      BY <2>1, <3>1 DEF CopiesKeepUpdates
    <3>3. row'.config = entity[x].config \/ (row'.config = row.config /\ entity[x].config = loaded[x].config)
      BY <3>1 DEF Stored
    <3>4. row.config = loaded[x].config \/ Excused(x)
      BY <3>1 DEF LoadedIsCurrent
    <3>5. QED
      BY <1>1, <1>s, <3>2, <3>3, <3>4 DEF Holds
  <2>5. QED
    BY <2>2, <2>3, <2>4
<1>2. CASE u # x
  <2>1. pc[u] = "ok" /\ f \in given[u] /\ row # None
    BY <1>2, StepShape DEF RowInv
  <2>2. \E c \in {row.config, entity[x].config} :
           row'.config = c /\ (Holds(c, u, f) \/ Excused(u))
    <3>1. Holds(row.config, u, f) \/ Excused(u)
      BY <2>1 DEF UpdatesSurvive, Holds, Excused
    <3>2. CASE row' = row
      BY <3>1, <3>2
    <3>3. CASE pc[x] = "write" /\ row' = Stored(x)
      <4>1. Holds(entity[x].config, u, f) \/ Excused(u)
        BY <2>1, <3>3 DEF CopiesKeepUpdates, Saving
      <4>2. row'.config = row.config \/ row'.config = entity[x].config
        BY <3>3 DEF Stored
      <4>3. QED
        BY <3>1, <4>1, <4>2
    <3>4. QED
      BY <2>1, <3>2, <3>3, RowChange
  <2>3. PICK c \in {row.config, entity[x].config} :
           row'.config = c /\ (Holds(c, u, f) \/ Excused(u))
    BY <2>2
  <2>4. Holds(c, u, f) => Holds(row.config, u, f)'
    BY <1>s, <2>3 DEF Holds
  <2>5. QED
    BY <1>s, <2>3, <2>4
<1>3. QED
  BY <1>1, <1>2

\* A write of another request since the SELECT overlaps this one.
LEMMA LoadedKept ==
    ASSUME IInv, NEW x \in Requests, Step(x)
    PROVE  LoadedIsCurrent'
<1> USE DEF IInv
<1>s. \A u \in Requests : (Excused(u) => Excused(u)') /\ (Revivable(u) => Revivable(u)')
  BY HistoryStable
<1> SUFFICES ASSUME NEW w \in Requests, pc'[w] = "write"
             PROVE  /\ row'.config = loaded'[w].config \/ Excused(w)'
                    /\ ~loaded'[w].active => ~row'.active \/ Revivable(w)'
  BY DEF LoadedIsCurrent
<1>1. CASE w = x
  <2>1. Load(x)
    BY <1>1 DEF Step, Receive, Create, Find, Load, Write, DbFails, Goto, TypeOK
  <2>2. loaded'[w] = row /\ row' = row
    BY <1>1, <2>1 DEF Load, TypeOK
  <2>3. QED
    BY <2>2
<1>2. CASE w # x
  <2>1. pc[w] = "write" /\ loaded'[w] = loaded[w] /\ row # None
    BY <1>2, StepShape DEF RowInv, Saving
  <2>2. /\ row.config = loaded[w].config \/ Excused(w)
        /\ ~loaded[w].active => ~row.active \/ Revivable(w)
    BY <2>1 DEF LoadedIsCurrent
  <2>3. CASE row' = row
    BY <1>s, <2>1, <2>2, <2>3
  <2>4. CASE pc[x] = "write" /\ row' = Stored(x)
    <3>1. Overlap(w, x)' /\ kind'[x] = kind[x] /\ kind[x] \in {"update", "deactivate"}
      BY <1>2, <2>1, <2>4, UnderWayOverlap, StepShape DEF Ended, KindInv, Saving
    <3>2. Excused(w)'
      BY <3>1 DEF Excused
    <3>3. CASE kind[x] = "update"
      BY <3>1, <3>2, <3>3 DEF Revivable
    <3>4. CASE kind[x] = "deactivate"
      <4>1. ~entity[x].active
        BY <2>4, <3>4 DEF CopiesStayInactive, Saving
      <4>2. row'.active => row.active
        BY <2>4, <4>1 DEF Stored
      <4>3. QED
        BY <1>s, <2>1, <2>2, <3>2, <4>2
    <3>5. QED
      BY <3>1, <3>3, <3>4
  <2>5. QED
    BY <2>1, <2>3, <2>4, RowChange
<1>3. QED
  BY <1>1, <1>2

\* An update finds an active brand only if no deactivate() was acknowledged, or
\* one was undone already.
LEMMA InactiveKept ==
    ASSUME IInv, NEW x \in Requests, Step(x)
    PROVE  CopiesStayInactive'
<1> USE DEF IInv
<1>s. \A u \in Requests : Revivable(u) => Revivable(u)'
  BY HistoryStable
<1> SUFFICES ASSUME NEW w \in Requests, Saving(w)'
             PROVE  /\ kind'[w] = "deactivate" => ~entity'[w].active
                    /\ kind'[w] = "update" => \A u \in Requests :
                          kind'[u] = "deactivate" /\ pc'[u] = "ok" => Revivable(u)'
  BY DEF CopiesStayInactive
<1>1. ASSUME NEW u \in Requests, kind'[u] = "deactivate", pc'[u] = "ok", kind'[w] = "update"
      PROVE  Revivable(u)'
  <2>1. CASE u = x
    <3>1. w # x /\ pc[x] # "new"
      BY <1>1, <2>1, StepShape
      DEF Step, Receive, Create, Find, Load, Write, DbFails, Goto, TypeOK, Saving
    <3>2. Saving(w)
      BY <3>1, StepShape DEF Saving
    <3>3. Overlap(x, w)'
      BY <3>1, <3>2, UnderWayOverlap DEF Saving, Ended
    <3>4. QED
      BY <1>1, <2>1, <3>3 DEF Revivable
  <2>2. CASE u # x
    <3>1. pc[u] = "ok" /\ kind[u] = "deactivate"
      BY <1>1, <2>2, StepShape
    <3>2. CASE Saving(w)
      <4>1. kind[w] = "update"
        BY <1>1, <3>2, StepShape DEF Saving
      <4>2. QED
        BY <1>s, <3>1, <3>2, <4>1 DEF CopiesStayInactive
    <3>3. CASE ~Saving(w)
      <4>1. w = x /\ row # None /\ row.active
        BY <3>3, StepShape
        DEF Step, Receive, Create, Find, Load, Write, DbFails, Goto, TypeOK, Saving
      <4>2. QED
        BY <1>s, <3>1, <4>1 DEF DeactivatedStays, Revivable
    <3>4. QED
      BY <3>2, <3>3
  <2>3. QED
    BY <2>1, <2>2
<1>2. ASSUME kind'[w] = "deactivate" PROVE ~entity'[w].active
  <2>1. CASE Saving(w)
    <3>1. entity'[w] = entity[w] /\ kind[w] = "deactivate"
      BY <1>2, <2>1, StepShape
      DEF Step, Receive, Create, Find, Load, Write, DbFails, Goto, TypeOK, Saving
    <3>2. QED
      BY <2>1, <3>1 DEF CopiesStayInactive
  <2>2. CASE ~Saving(w)
    <3>1. w = x /\ row # None /\ entity'[x] = Changed(x) /\ kind' = kind
      BY <2>2, StepShape
      DEF Step, Receive, Create, Find, Load, Write, DbFails, Goto, TypeOK, Saving
    <3>2. QED
      BY <1>2, <3>1, ChangedType
  <2>3. QED
    BY <2>1, <2>2
<1>3. QED
  BY <1>1, <1>2

\* A step of a request keeps an acknowledged deactivation.
LEMMA DeactivatedKept ==
    ASSUME IInv, NEW x \in Requests, Step(x)
    PROVE  DeactivatedStays'
<1> USE DEF IInv
<1>s. \A u \in Requests : Revivable(u) => Revivable(u)'
  BY HistoryStable
<1> SUFFICES ASSUME NEW u \in Requests, kind'[u] = "deactivate", pc'[u] = "ok"
             PROVE  ~row'.active \/ Revivable(u)'
  BY DEF DeactivatedStays, Revivable
<1>1. CASE u = x
  <2>1. pc[x] = "write" /\ row' = Stored(x) /\ kind[x] = "deactivate"
    BY <1>1, StepShape DEF Step, Receive, Create, Find, Load, Write, DbFails, Goto, TypeOK, KindInv
  <2>2. ~entity[x].active
    BY <2>1 DEF CopiesStayInactive, Saving
  <2>3. row'.active => ~loaded[x].active /\ row.active
    <3>1. entity[x] \in Rows /\ loaded[x] \in Rows
      BY <2>1 DEF TypeOK, RowInv, Saving
    <3>2. QED
      BY <2>1, <2>2, <3>1 DEF Stored, Rows
  <2>4. QED
    BY <1>1, <1>s, <2>1, <2>3 DEF LoadedIsCurrent
<1>2. CASE u # x
  <2>1. pc[u] = "ok" /\ kind[u] = "deactivate" /\ row # None
    BY <1>2, StepShape DEF RowInv
  <2>2. ~row.active \/ Revivable(u)
    BY <2>1 DEF DeactivatedStays, Revivable
  <2>3. CASE row' = row
    BY <1>s, <2>2, <2>3
  <2>4. CASE pc[x] = "write" /\ row' = Stored(x)
    <3>1. CASE kind[x] = "update"
      BY <1>s, <2>1, <2>4, <3>1 DEF CopiesStayInactive, Saving
    <3>2. CASE kind[x] # "update"
      <4>1. ~entity[x].active
        BY <2>4, <3>2 DEF CopiesStayInactive, KindInv, Saving
      <4>2. row'.active => row.active
        BY <2>4, <4>1 DEF Stored
      <4>3. QED
        BY <1>s, <2>2, <4>2
    <3>3. QED
      BY <3>1, <3>2
  <2>5. QED
    BY <2>1, <2>3, <2>4, RowChange
<1>3. QED
  BY <1>1, <1>2
----------------------------------------------------------------------------
\* The invariant holds before the first request.
LEMMA InitIInv == Init => IInv
BY ValuesAssumption
DEF Init, IInv, TypeOK, Ended, HistoryInv, KindInv, RowInv, Saving, CopiesKeepUpdates,
    LoadedIsCurrent, CopiesStayInactive, UpdatesSurvive, DeactivatedStays

\* The inductive step: the step of any request, and stuttering.
LEMMA NextIInv == IInv /\ [Next]_vars => IInv'
<1> SUFFICES ASSUME IInv, [Next]_vars PROVE IInv'
  OBVIOUS
<1>1. ASSUME NEW x \in Requests, Step(x) PROVE IInv'
  BY <1>1, TypeKept, HistoryKept, KindKept, RowKept, CopiesKept, UpdatesKept, LoadedKept,
     InactiveKept, DeactivatedKept DEF IInv
<1>2. CASE UNCHANGED vars
  BY <1>2 DEF vars, IInv, TypeOK, HistoryInv, KindInv, RowInv, Saving, CopiesKeepUpdates,
     LoadedIsCurrent, CopiesStayInactive, UpdatesSurvive, DeactivatedStays, Holds, Excused,
     Revivable, Overlap, Precedes
<1>3. QED
  BY <1>1, <1>2 DEF Next

\* The invariant holds in every reachable state.
LEMMA Invariance == Spec => []IInv
BY InitIInv, NextIInv, PTL DEF Spec

\* The row, the copies and the history of the requests have their types in
\* every reachable state, for any number of requests to BrandsService.
THEOREM BrandTypes == Spec => []TypeOK
<1>1. IInv => TypeOK
  BY DEF IInv
<1>2. QED
  BY <1>1, Invariance, PTL

\* An acknowledged create() or updateConfig() is undone only by a request that
\* was under way at the same time: read, merge and save of BrandsService lose
\* no update between requests that follow each other, however many overlap
\* elsewhere and whichever database calls fail half way.
THEOREM UpdatesAreKept == Spec => []UpdatesSurvive
<1>1. IInv => UpdatesSurvive
  BY DEF IInv
<1>2. QED
  BY <1>1, Invariance, PTL

\* After an acknowledged deactivate() the brand is inactive unless an
\* updateConfig() that overlapped it saved its stale copy.
THEOREM DeactivationIsKept == Spec => []DeactivatedStays
<1>1. IInv => DeactivatedStays
  BY DEF IInv
<1>2. QED
  BY <1>1, Invariance, PTL
=============================================================================
