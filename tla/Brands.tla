------------------------------- MODULE Brands -------------------------------
(***************************************************************************)
(* BrandsService (src/brands/): the row of one brand, and the requests that*)
(* create it, update its configuration or deactivate it, on any replica.   *)
(*                                                                         *)
(* The value of a configuration field is named after the request that set  *)
(* it.  TypeORM is external, modelled from how the code uses it: save()    *)
(* SELECTs the row by its id and then UPDATEs the columns in which the     *)
(* entity differs from what it has read.  `config` (jsonb) is one column.  *)
(* Between any two database calls other requests go on.                    *)
(***************************************************************************)
EXTENDS FiniteSets

CONSTANTS Requests,
          Required,    \* fields every BrandConfigDto has
          Optional,    \* fields it may leave out
          Default,     \* the value create() gives to a field left out
          None         \* no row, no entity, no configuration

ASSUME FieldsAssumption  == Required \cap Optional = {}
ASSUME ValuesAssumption  == None # Default /\ {None, Default} \cap Requests = {}

Fields == Required \cup Optional
Kinds  == {"create", "update", "deactivate"}
Ended  == {"ok", "failed", "notFound"}

VARIABLES row,      \* [active, config], or None before the first create
          pc,       \* what a request awaits
          kind,
          given,    \* the fields of the request's dto
          entity,   \* the copy of the row that a request works on
          loaded,   \* the row as the SELECT of its save() found it
          before    \* history: the requests that had ended when it began

vars == <<row, pc, kind, given, entity, loaded, before>>

Rows == [active : BOOLEAN, config : [Fields -> Requests \cup {Default}]]

ASSUME NoRowAssumption == None \notin Rows

TypeOK ==
    /\ row \in Rows \cup {None}
    /\ pc \in [Requests -> Ended \cup {"new", "insert", "find", "load", "write"}]
    /\ kind \in [Requests -> Kinds \cup {None}]
    /\ given \in [Requests -> SUBSET Fields]
    /\ entity \in [Requests -> Rows \cup {None}]
    /\ loaded \in [Requests -> Rows \cup {None}]
    /\ before \in [Requests -> SUBSET Requests]

Init ==
    /\ row = None
    /\ pc = [u \in Requests |-> "new"]
    /\ kind = [u \in Requests |-> None]
    /\ given = [u \in Requests |-> {}]
    /\ entity = [u \in Requests |-> None]
    /\ loaded = [u \in Requests |-> None]
    /\ before = [u \in Requests |-> {}]

Goto(u, l) == pc' = [pc EXCEPT ![u] = l]

\* The configuration create() builds from the dto of u.
NewConfig(u) == [f \in Fields |-> IF f \in given[u] THEN u ELSE Default]

\* {...brand.config, ...dto.config} (mutant: the dto replaces the configuration).
Merge_Replaces(config, u) == [f \in Fields |-> IF f \in given[u] THEN u ELSE Default]

Merge(config, u) == [f \in Fields |-> IF f \in given[u] THEN u ELSE config[f]]
----------------------------------------------------------------------------
\* A request reaches the service with a valid dto.
Receive(u) ==
    /\ pc[u] = "new"
    /\ \E k \in Kinds, opt \in SUBSET Optional :
          /\ kind' = [kind EXCEPT ![u] = k]
          /\ k = "deactivate" => opt = {}
          /\ given' = [given EXCEPT ![u] = IF k = "deactivate" THEN {} ELSE Required \cup opt]
          /\ Goto(u, IF k = "create" THEN "insert" ELSE "find")
    /\ before' = [before EXCEPT ![u] = {v \in Requests : pc[v] \in Ended}]
    /\ UNCHANGED <<row, entity, loaded>>

\* create(): the slug is unique, and a deactivated brand keeps its slug.
Create(u) ==
    /\ pc[u] = "insert"
    /\ IF row = None
       THEN /\ row' = [active |-> TRUE, config |-> NewConfig(u)]
            /\ Goto(u, "ok")
       ELSE /\ Goto(u, "failed")
            /\ UNCHANGED row
    /\ UNCHANGED <<kind, given, entity, loaded, before>>

\* What the request makes of the row it has found.
Changed(u) ==
    IF kind[u] = "update" THEN [row EXCEPT !.config = Merge(@, u)]
                          ELSE [row EXCEPT !.active = FALSE]

\* findById; then updateConfig or deactivate changes the copy and calls save().
Find(u) ==
    /\ pc[u] = "find"
    /\ IF row # None /\ row.active
       THEN /\ entity' = [entity EXCEPT ![u] = Changed(u)]
            /\ Goto(u, "load")
       ELSE /\ Goto(u, "notFound")
            /\ UNCHANGED entity
    /\ UNCHANGED <<row, kind, given, loaded, before>>

\* Mutant of Load: deactivate() does not await save(), whose UPDATE then fails.
Load_NotAwaited(u) ==
    /\ pc[u] = "load"
    /\ loaded' = [loaded EXCEPT ![u] = row]
    /\ Goto(u, IF kind[u] = "deactivate" THEN "ok" ELSE "write")
    /\ UNCHANGED <<row, kind, given, entity, before>>

\* The SELECT of save().
Load(u) ==
    /\ pc[u] = "load"
    /\ loaded' = [loaded EXCEPT ![u] = row]
    /\ Goto(u, "write")
    /\ UNCHANGED <<row, kind, given, entity, before>>

\* The columns that differ, written over the row as it is now.
Stored(u) ==
    [active |-> IF entity[u].active # loaded[u].active THEN entity[u].active ELSE row.active,
     config |-> IF entity[u].config # loaded[u].config THEN entity[u].config ELSE row.config]

\* The UPDATE of save(), and the answer to the client.
Write(u) ==
    /\ pc[u] = "write"
    /\ row' = Stored(u)
    /\ Goto(u, "ok")
    /\ UNCHANGED <<kind, given, entity, loaded, before>>

\* A database call rejects; a write may have taken effect.
DbFails(u) ==
    /\ pc[u] \in {"insert", "find", "load", "write"}
    /\ \/ UNCHANGED row
       \/ pc[u] = "insert" /\ row = None /\ row' = [active |-> TRUE, config |-> NewConfig(u)]
       \/ pc[u] = "write" /\ row' = Stored(u)
    /\ Goto(u, "failed")
    /\ UNCHANGED <<kind, given, entity, loaded, before>>

Step(u) == Receive(u) \/ Create(u) \/ Find(u) \/ Load(u) \/ Write(u) \/ DbFails(u)

AllAnswered == \A u \in Requests : pc[u] \in Ended

Next == (\E u \in Requests : Step(u)) \/ (AllAnswered /\ UNCHANGED vars)

Spec == Init /\ [][Next]_vars
----------------------------------------------------------------------------
\* u was answered before v began.
Precedes(u, v) == u \in before[v]

Overlap(u, v) == u # v /\ pc[u] # "new" /\ pc[v] # "new" /\ ~Precedes(u, v) /\ ~Precedes(v, u)

\* An acknowledged create or updateConfig is not undone by requests that leave
\* its fields out: a field still has its value, or that of a later request whose
\* dto had the field.  A request that was under way at the same time may undo it
\* (read, merge and save are three steps).
UpdatesSurvive ==
    \A u \in Requests : \A f \in given[u] : pc[u] = "ok" =>
        \/ row.config[f] = u
        \/ \E v \in Requests : f \in given[v] /\ row.config[f] = v /\ Precedes(u, v)
        \/ \E v \in Requests : kind[v] # "create" /\ Overlap(u, v)

\* A brand stays inactive once deactivate() was acknowledged, unless an
\* updateConfig that overlapped it saves its stale copy.
DeactivatedStays ==
    \A u \in Requests : kind[u] = "deactivate" /\ pc[u] = "ok" =>
        \/ ~row.active
        \/ \E v \in Requests : kind[v] = "update" /\ Overlap(u, v)
=============================================================================
