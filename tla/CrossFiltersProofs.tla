------------------------ MODULE CrossFiltersProofs --------------------------
(***************************************************************************)
(* Theorems about CrossFilters, for any selections, orders and views: its  *)
(* types; that an up-to-date filter table is that of the selection; that a *)
(* current summary is of the shown filter; that shown frames are alive.    *)
(***************************************************************************)
EXTENDS CrossFilters, TLAPS

-----------------------------------------------------------------------------
(* Types                                                                    *)

\* the types of the reducer's state
Typed(tb, ts, counts, next) ==
    /\ tb \in Slot(TableState)
    /\ ts \subseteq SchedulerTask
    /\ \A t \in ts : t.kind = "aggregate" => t.of \in FilterResult
    /\ counts \in [Frames -> Nat]
    /\ next \in Nat \ {0}

\* Acquiring keeps counts.
LEMMA AcquireCounts ==
    ASSUME NEW counts \in [Frames -> Nat], NEW frames, NEW times \in Nat
    PROVE  /\ Acquire(counts, frames, times) \in [Frames -> Nat]
           /\ \A f \in Frames : Acquire(counts, frames, times)[f] >= counts[f]
           /\ \A f \in Frames \cap frames : Acquire(counts, frames, times)[f] >= times
BY DEF Acquire

\* Releasing keeps counts, and those of the frames it does not release.
LEMMA ReleaseCounts ==
    ASSUME NEW counts \in [Frames -> Nat], NEW frames
    PROVE  /\ Release(counts, frames) \in [Frames -> Nat]
           /\ \A f \in Frames \ frames : Release(counts, frames)[f] = counts[f]
BY DEF Release

\* Scheduling a filter keeps the types.
LEMMA FilterScheduledTypes ==
    ASSUME NEW before, NEW counts, NEW others, NEW filters \in Selections,
           Typed(before, others, counts, nextTask),
           SchedulesFilter(before, counts, others, filters)
    PROVE  Typed(table', tasks', refs', nextTask')
<1>1. CASE before = Nothing
  BY <1>1 DEF Typed, SchedulesFilter
<1>2. CASE before # Nothing
  <2>1. nextTask \in Frames \ {DataFrame} /\ nextTask' \in Nat \ {0}
    BY <1>2, BoundsAreNumbers DEF Typed, SchedulesFilter, Frames, DataFrame
  <2>2. before \in TableState /\ before.version + 1 \in Nat
    BY <1>2 DEF Typed, TableState, Slot
  <2>3. table' \in TableState
    <3> DEFINE slot == [version |-> before.version + 1, filters |-> filters, status |-> "running"]
    <3>1. slot \in Slot([version : Nat, filters : Selections, status : Status])
      BY <2>2 DEF Slot, Status
    <3>2. table' = [before EXCEPT !.version = before.version + 1, !.filtering = slot]
      BY <1>2 DEF SchedulesFilter
    <3> HIDE DEF slot
    <3>3. QED
      BY <2>2, <3>1, <3>2 DEF TableState
  <2>4. refs' \in [Frames -> Nat]
    BY <1>2, AcquireCounts DEF SchedulesFilter, Typed
  <2>5. tasks' \subseteq SchedulerTask
    BY <1>2, <2>1, <2>2 DEF SchedulesFilter, Typed, SchedulerTask, AnyOrder, Slot
  <2>6. \A t \in tasks' : t.kind = "aggregate" => t.of \in FilterResult
    BY <1>2 DEF SchedulesFilter, Typed
  <2>7. QED
    BY <2>1, <2>3, <2>4, <2>5, <2>6 DEF Typed, Slot
<1>3. QED
  BY <1>1, <1>2

\* Scheduling an ordering or a summary keeps the types.
LEMMA OthersScheduledTypes ==
    ASSUME Typed(table, tasks, refs, nextTask),
           \/ \E version \in Nat, of \in Slot(FilterResult), by \in AnyOrder :
                 SchedulesOrdering(version, of, by)
           \/ \E of \in FilterResult : SchedulesAggregate(of)
    PROVE  Typed(table', tasks', refs', nextTask')
<1>1. CASE table = Nothing
  BY <1>1 DEF Typed, SchedulesOrdering, SchedulesAggregate
<1>2. CASE table # Nothing
  <2>1. nextTask \in Frames \ {DataFrame} /\ nextTask' \in Nat \ {0}
    <3>1. nextTask <= MaxTasks /\ nextTask' = nextTask + 1
      BY <1>2 DEF SchedulesOrdering, SchedulesAggregate
    <3>2. QED
      BY <3>1, BoundsAreNumbers DEF Typed, Frames, DataFrame
  <2>2. table \in TableState /\ table.version \in Nat
    BY <1>2 DEF Typed, TableState, Slot
  <2>3. refs' \in [Frames -> Nat]
    <3>1. \E frames : refs' = Acquire(refs, frames, 2)
      BY <1>2 DEF SchedulesOrdering, SchedulesAggregate
    <3>2. refs \in [Frames -> Nat] /\ 2 \in Nat
      BY DEF Typed
    <3>3. QED
      BY <3>1, <3>2, AcquireCounts
  <2>4. CASE \E version \in Nat, of \in Slot(FilterResult), by \in AnyOrder :
                SchedulesOrdering(version, of, by)
    <3>1. PICK version \in Nat, of \in Slot(FilterResult), by \in AnyOrder :
              SchedulesOrdering(version, of, by)
      BY <2>4
    <3>2. table' \in TableState
      BY <1>2, <2>2, <3>1 DEF SchedulesOrdering, TableState, Slot, Status
    <3>3. tasks' \subseteq SchedulerTask /\ \A t \in tasks' : t.kind = "aggregate" => t.of \in FilterResult
      BY <1>2, <2>1, <3>1, EmptySelection DEF SchedulesOrdering, Typed, SchedulerTask
    <3>4. QED
      BY <2>1, <2>3, <3>2, <3>3 DEF Typed, Slot
  <2>5. CASE \E of \in FilterResult : SchedulesAggregate(of)
    <3>1. PICK of \in FilterResult : SchedulesAggregate(of)
      BY <2>5
    <3>2. table' \in TableState
      BY <1>2, <2>2, <3>1 DEF SchedulesAggregate, TableState, Slot, Status
    <3>3. tasks' \subseteq SchedulerTask /\ \A t \in tasks' : t.kind = "aggregate" => t.of \in FilterResult
      <4>1. of.version \in Nat
        BY <3>1 DEF FilterResult
      <4>2. QED
        BY <1>2, <2>1, <3>1, <4>1, EmptySelection
           DEF SchedulesAggregate, Typed, SchedulerTask, AnyOrder, Slot
    <3>4. QED
      BY <2>1, <2>3, <3>2, <3>3 DEF Typed, Slot
  <2>6. QED
    BY <2>4, <2>5
<1>3. QED
  BY <1>1, <1>2

\* A slot is updated with the values of its task.
LEMMA UpdatedTypes ==
    ASSUME NEW tb \in Slot(TableState), NEW t \in SchedulerTask, NEW status \in Status,
           t.kind = "aggregate" => t.of \in FilterResult
    PROVE  Updated(tb, t, status) \in Slot(TableState)
<1>1. CASE tb = Nothing
  BY <1>1 DEF Updated, Slot
<1>2. CASE tb # Nothing
  <2>1. tb \in TableState /\ tb.version \in Nat
    BY <1>2 DEF Slot, TableState
  <2>2. /\ t.filters \in Selections /\ t.by \in AnyOrder /\ t.of \in Slot(FilterResult)
        /\ t.kind \in {"filter", "order", "aggregate"}
    BY DEF SchedulerTask
  <2>3. CASE t.kind = "filter"
    <3> DEFINE slot == [version |-> tb.version, filters |-> t.filters, status |-> status]
    <3>1. slot \in Slot([version : Nat, filters : Selections, status : Status])
      BY <2>1, <2>2 DEF Slot
    <3>2. Updated(tb, t, status) = [tb EXCEPT !.filtering = slot]
      BY <1>2, <2>3 DEF Updated
    <3> HIDE DEF slot
    <3>3. QED
      BY <2>1, <3>1, <3>2 DEF TableState, Slot
  <2>4. CASE t.kind = "order"
    <3> DEFINE slot == [version |-> tb.version, of |-> t.of, by |-> t.by, status |-> status]
    <3>1. slot \in Slot([version : Nat, of : Slot(FilterResult), by : AnyOrder, status : Status])
      BY <2>1, <2>2 DEF Slot
    <3>2. Updated(tb, t, status) \in {tb, [tb EXCEPT !.ordering = slot]}
      BY <1>2, <2>4 DEF Updated
    <3> HIDE DEF slot
    <3>3. QED
      BY <2>1, <3>1, <3>2 DEF TableState, Slot
  <2>5. CASE t.kind = "aggregate"
    <3> DEFINE slot == [of |-> t.of, status |-> status]
    <3>1. slot \in Slot([of : FilterResult, status : Status])
      BY <2>5 DEF Slot
    <3>2. Updated(tb, t, status) = [tb EXCEPT !.aggregating = slot]
      BY <1>2, <2>5 DEF Updated
    <3> HIDE DEF slot
    <3>3. QED
      BY <2>1, <3>1, <3>2 DEF TableState, Slot
  <2>6. QED
    BY <2>2, <2>3, <2>4, <2>5
<1>3. QED
  BY <1>1, <1>2

\* The results of tasks have the types of the results.
LEMMA ResultTypes ==
    ASSUME NEW t \in SchedulerTask, table \in Slot(TableState)
    PROVE  /\ AcceptsFilter(t) => Filtered(t) \in TableState
           /\ AcceptsOrdering(t) => Ordered(t) \in TableState
           /\ t.of \in FilterResult /\ AcceptsAggregate(t) => Aggregated(t) \in TableState
<1>1. /\ t.filters \in Selections /\ t.by \in AnyOrder /\ t.of \in Slot(FilterResult)
      /\ t.version \in Nat /\ t.id \in Frames
  BY DEF SchedulerTask
<1>2. ASSUME AcceptsFilter(t) PROVE Filtered(t) \in TableState
  <2>1. table \in TableState
    BY <1>2 DEF AcceptsFilter, Slot
  <2> DEFINE slot == IF table.filtering = Nothing THEN Nothing
                     ELSE [table.filtering EXCEPT !.status = "succeeded"]
             cleared == t.filters = NoFilter
             result == IF cleared THEN Nothing
                       ELSE [version |-> t.version, filters |-> t.filters, frame |-> t.id]
             summary == IF cleared THEN Nothing ELSE table.aggregate
             outdated == /\ ~cleared
                         /\ ~(table.aggregate # Nothing /\ table.aggregate.version = t.version)
  <2>2. slot \in Slot([version : Nat, filters : Selections, status : Status])
    BY <2>1 DEF Slot, Status, TableState
  <2>3. result \in Slot(FilterResult)
    BY <1>1 DEF Slot, FilterResult
  <2>4. summary \in Slot(Summary)
    BY <2>1 DEF Slot, TableState
  <2>5. outdated \in BOOLEAN
    OBVIOUS
  <2>6. Filtered(t) = [table EXCEPT !.filtering = slot, !.filterTable = result,
                                    !.orderingTable = Nothing, !.aggregate = summary,
                                    !.outdated = outdated]
    BY DEF Filtered
  <2> HIDE DEF slot, result, summary, outdated
  <2>7. Nothing \in Slot(OrderingResult)
    BY DEF Slot
  <2>8. QED
    BY <2>1, <2>2, <2>3, <2>4, <2>5, <2>6, <2>7 DEF TableState
<1>3. ASSUME AcceptsOrdering(t) PROVE Ordered(t) \in TableState
  <2>1. table \in TableState /\ table.ordering # Nothing
    BY <1>3 DEF AcceptsOrdering, Slot
  <2> DEFINE slot == [table.ordering EXCEPT !.status = "succeeded"]
             result == [version |-> t.version, by |-> t.by, of |-> t.of, frame |-> t.id]
  <2>2. slot \in Slot([version : Nat, of : Slot(FilterResult), by : AnyOrder, status : Status])
    BY <2>1 DEF Slot, Status, TableState
  <2>3. result \in Slot(OrderingResult)
    BY <1>1 DEF Slot, OrderingResult
  <2>4. Ordered(t) = [table EXCEPT !.orderingTable = result, !.orderedBy = t.by, !.ordering = slot]
    BY <2>1 DEF Ordered, TableState
  <2> HIDE DEF slot, result
  <2>5. QED
    BY <1>1, <2>1, <2>2, <2>3, <2>4 DEF TableState
<1>4. ASSUME t.of \in FilterResult, AcceptsAggregate(t) PROVE Aggregated(t) \in TableState
  <2>1. table \in TableState /\ table.aggregating # Nothing
    BY <1>4 DEF AcceptsAggregate, Slot
  <2> DEFINE slot == [table.aggregating EXCEPT !.status = "succeeded"]
             result == [version |-> t.of.version, frame |-> t.id]
  <2>2. slot \in Slot([of : FilterResult, status : Status])
    BY <2>1 DEF Slot, Status, TableState
  <2>3. result \in Slot(Summary)
    BY <1>1, <1>4 DEF Slot, Summary, FilterResult
  <2>4. Aggregated(t) = [table EXCEPT !.aggregate = result, !.outdated = FALSE, !.aggregating = slot]
    BY <2>1 DEF Aggregated, TableState
  <2> HIDE DEF slot, result
  <2>5. QED
    BY <2>1, <2>2, <2>3, <2>4 DEF TableState
<1>5. QED
  BY <1>2, <1>3, <1>4

Requests == [active : Slot(Request), pending : Slot(Request)]

\* Launching the pending filter keeps the types.
LEMMA SettlesTypes ==
    ASSUME NEW after, NEW counts, NEW others, Typed(after, others, counts, nextTask),
           queue \in Requests, Settles(after, counts, others)
    PROVE  Typed(table', tasks', refs', nextTask') /\ queue' \in Requests
<1>1. queue' \in Requests
  BY DEF Settles, Requests, Slot
<1>2. CASE queue.pending = Nothing
  BY <1>1, <1>2 DEF Settles, Typed
<1>3. CASE queue.pending # Nothing
  <2>1. queue.pending.filters \in Selections
    BY <1>3 DEF Requests, Slot, Request
  <2>2. SchedulesFilter(after, counts, others, queue.pending.filters)
    BY <1>3 DEF Settles
  <2>3. QED
    BY <1>1, <2>1, <2>2, FilterScheduledTypes
<1>4. QED
  BY <1>2, <1>3

\* The types of the reducer's state, of the last render and of the queue.
LEMMA TypeParts ==
    TypeOK <=> /\ Typed(table, tasks, refs, nextTask)
               /\ seen.table \in Slot(TableState) /\ (due # {} => seen.table # Nothing)
               /\ queue \in Requests
BY DEF TypeOK, Typed, Requests

\* A task that is replaced by one of its own phases keeps its type.
LEMMA PhaseTypes ==
    ASSUME NEW ts, ts \subseteq SchedulerTask, NEW t \in ts,
           \A u \in ts : u.kind = "aggregate" => u.of \in FilterResult,
           NEW phase \in {"scheduled", "running", "failed"}
    PROVE  LET moved == [t EXCEPT !.phase = phase] IN
           /\ (ts \ {t}) \cup {moved} \subseteq SchedulerTask
           /\ \A u \in (ts \ {t}) \cup {moved} : u.kind = "aggregate" => u.of \in FilterResult
           /\ moved.kind = t.kind /\ moved.of = t.of /\ moved.id = t.id
           /\ moved.version = t.version /\ moved.filters = t.filters /\ moved.phase = phase
BY DEF SchedulerTask

\* The user keeps the types.
LEMMA UserTypes ==
    ASSUME TypeOK,
           \/ \E f \in Selections : Select(f)
           \/ \E o \in Orders : Sort(o)
           \/ ClearOrdering \/ DeleteComputation
    PROVE  TypeOK'
<1> USE TypeParts
<1>0. /\ Typed(table, tasks, refs, nextTask)
      /\ seen.table \in Slot(TableState) /\ (due # {} => seen.table # Nothing)
      /\ queue \in Requests
  OBVIOUS
<1>1. CASE \E f \in Selections : Select(f)
  <2>1. PICK f \in Selections : Select(f)
    BY <1>1
  <2>2. table' \in TableState
    BY <1>0, <2>1 DEF Select, Typed, Slot, TableState
  <2>3. QED
    BY <1>0, <2>1, <2>2 DEF Select, TypeOK, Typed, Slot, Requests
<1>2. CASE \E o \in Orders : Sort(o)
  <2>1. PICK o \in Orders : Sort(o)
    BY <1>2
  <2>2. seen.table.version \in Nat /\ seen.table.filterTable \in Slot(FilterResult)
        /\ o \in AnyOrder
    BY <1>0, <2>1 DEF Sort, Slot, TableState, AnyOrder
  <2>3. Typed(table', tasks', refs', nextTask')
    BY <1>0, <2>1, <2>2, OthersScheduledTypes DEF Sort
  <2>4. QED
    BY <1>0, <2>1, <2>3 DEF Sort, TypeOK, Typed, Requests
<1>3. CASE ClearOrdering
  <2> DEFINE slot == IF table.ordering = Nothing THEN Nothing
                     ELSE [table.ordering EXCEPT !.by = Unordered]
  <2>1. table \in TableState
    BY <1>0, <1>3 DEF ClearOrdering, Typed, Slot
  <2>2. slot \in Slot([version : Nat, of : Slot(FilterResult), by : AnyOrder, status : Status])
    BY <2>1 DEF Slot, TableState, AnyOrder
  <2>3. table' = [table EXCEPT !.orderedBy = Unordered, !.orderingTable = Nothing, !.ordering = slot]
    BY <1>3 DEF ClearOrdering
  <2> HIDE DEF slot
  <2>4. table' \in TableState
    BY <2>1, <2>2, <2>3 DEF TableState, Slot, AnyOrder
  <2>5. refs' \in [Frames -> Nat]
    BY <1>0, <1>3, ReleaseCounts DEF ClearOrdering, Typed
  <2>6. QED
    BY <1>0, <1>3, <2>4, <2>5 DEF ClearOrdering, TypeOK, Typed, Slot, Requests
<1>4. CASE DeleteComputation
  <2>1. \A counts \in [Frames -> Nat] : \A frames : Release(counts, frames) \in [Frames -> Nat]
    BY ReleaseCounts
  <2>2. refs' \in [Frames -> Nat]
    <3> DEFINE results == Release(refs, {DataFrame} \cup FrameOf(table.filterTable)
                                   \cup FrameOf(table.orderingTable) \cup FrameOf(table.aggregate))
               filtering == IF table.filtering = Nothing THEN results
                            ELSE Release(results, {DataFrame})
               ordering == IF table.ordering = Nothing THEN filtering
                           ELSE Release(filtering, {DataFrame} \cup FrameOf(table.ordering.of))
               summary == Release(ordering, {DataFrame})
               last == IF table.aggregating = Nothing THEN summary
                       ELSE Release(summary, FrameOf(table.aggregating.of))
    <3>1. refs' = last
      BY <1>4 DEF DeleteComputation
    <3>2. results \in [Frames -> Nat]
      BY <1>0, <2>1 DEF Typed
    <3>3. filtering \in [Frames -> Nat]
      <4> HIDE DEF results
      <4>1. QED
        BY <2>1, <3>2
    <3>4. ordering \in [Frames -> Nat]
      <4> HIDE DEF filtering
      <4>1. QED
        BY <2>1, <3>3
    <3>5. summary \in [Frames -> Nat]
      <4> HIDE DEF ordering
      <4>1. QED
        BY <2>1, <3>4
    <3>6. last \in [Frames -> Nat]
      <4> HIDE DEF summary
      <4>1. QED
        BY <2>1, <3>5
    <3> HIDE DEF last
    <3>7. QED
      BY <3>1, <3>6
  <2>3. QED
    BY <1>0, <1>4, <2>2 DEF DeleteComputation, TypeOK, Typed, Slot, Requests
<1>5. QED
  BY <1>1, <1>2, <1>3, <1>4

\* Rendering, and the effects of a render, keep the types.
LEMMA EffectTypes ==
    ASSUME TypeOK,
           \/ Render \/ OrderEffect
           \/ \E v \in Views : FilterEffect(v) \/ SummaryEffect(v)
    PROVE  TypeOK'
<1> USE TypeParts
<1>0. /\ Typed(table, tasks, refs, nextTask)
      /\ seen.table \in Slot(TableState) /\ (due # {} => seen.table # Nothing)
      /\ queue \in Requests
  OBVIOUS
<1>1. CASE Render
  BY <1>0, <1>1 DEF Render, TypeOK, Typed, Requests
<1>2. CASE OrderEffect
  <2>1. CASE UNCHANGED <<table, tasks, nextTask, refs>>
    BY <1>0, <1>2, <2>1 DEF OrderEffect, TypeOK, Typed, Requests
  <2>2. CASE SchedulesOrdering(seen.table.version, seen.table.filterTable, ActiveOrder(seen.table))
    <3>1. seen.table \in TableState
      BY <1>0, <1>2 DEF OrderEffect, Slot
    <3>2. seen.table.version \in Nat /\ seen.table.filterTable \in Slot(FilterResult)
      BY <3>1 DEF TableState
    <3>3. ActiveOrder(seen.table) \in AnyOrder
      BY <3>1 DEF ActiveOrder, Slot, TableState
    <3>4. Typed(table', tasks', refs', nextTask')
      BY <1>0, <2>2, <3>2, <3>3, OthersScheduledTypes
    <3>5. QED
      BY <1>0, <1>2, <3>4 DEF OrderEffect, TypeOK, Typed, Requests
  <2>3. QED
    BY <1>2, <2>1, <2>2 DEF OrderEffect
<1>3. CASE \E v \in Views : FilterEffect(v)
  <2>1. PICK v \in Views : FilterEffect(v)
    BY <1>3
  <2>2. seen.table \in TableState
    BY <1>0, <2>1 DEF FilterEffect, Slot
  <2> DEFINE key == [version |-> seen.table.version, filters |-> seen.table.selection]
  <2>3. key \in Request /\ seen.table.selection \in Selections
    BY <2>2 DEF Request, TableState
  <2>4. queue' \in Requests
    <3>1. queue' \in {queue, [queue EXCEPT !.active = key], [queue EXCEPT !.pending = Nothing],
                      [queue EXCEPT !.pending = key]}
      BY <2>1 DEF FilterEffect
    <3> HIDE DEF key
    <3>2. QED
      BY <1>0, <2>3, <3>1 DEF Requests, Slot
  <2>5. Typed(table', tasks', refs', nextTask')
    <3>1. \/ SchedulesFilter(table, refs, tasks, seen.table.selection)
          \/ UNCHANGED <<table, tasks, nextTask, refs>>
      BY <2>1 DEF FilterEffect
    <3>2. QED
      BY <1>0, <2>3, <3>1, FilterScheduledTypes DEF Typed
  <2>6. QED
    BY <1>0, <2>1, <2>4, <2>5 DEF FilterEffect, TypeOK, Typed, Requests
<1>4. CASE \E v \in Views : SummaryEffect(v)
  <2>1. PICK v \in Views : SummaryEffect(v)
    BY <1>4
  <2>2. CASE UNCHANGED <<table, tasks, nextTask, refs>>
    BY <1>0, <2>1, <2>2 DEF SummaryEffect, TypeOK, Typed, Requests
  <2>3. CASE seen.table.filterTable # Nothing /\ SchedulesAggregate(seen.table.filterTable)
    <3>1. seen.table.filterTable \in FilterResult
      BY <1>0, <2>1, <2>3 DEF SummaryEffect, Slot, TableState
    <3>2. Typed(table', tasks', refs', nextTask')
      BY <1>0, <2>3, <3>1, OthersScheduledTypes
    <3>3. QED
      BY <1>0, <2>1, <3>2 DEF SummaryEffect, TypeOK, Typed, Requests
  <2>4. QED
    BY <2>1, <2>2, <2>3 DEF SummaryEffect
<1>5. QED
  BY <1>1, <1>2, <1>3, <1>4

\* The scheduler keeps the types.
LEMMA TaskTypes ==
    ASSUME TypeOK, NEW t \in tasks,
           \/ Launch(t) \/ FilterCompletes(t) \/ OrderingCompletes(t)
           \/ AggregateCompletes(t) \/ TaskFails(t)
    PROVE  TypeOK'
<1>0. /\ Typed(table, tasks, refs, nextTask)
      /\ seen.table \in Slot(TableState) /\ (due # {} => seen.table # Nothing)
      /\ queue \in Requests
  BY TypeParts
<1>1. /\ table \in Slot(TableState) /\ tasks \subseteq SchedulerTask
      /\ t \in SchedulerTask /\ (t.kind = "aggregate" => t.of \in FilterResult)
      /\ refs \in [Frames -> Nat] /\ nextTask \in Nat \ {0}
      /\ \A u \in tasks : u.kind = "aggregate" => u.of \in FilterResult
  BY <1>0 DEF Typed
<1>2. \A rs : /\ Acquire(refs, rs, 1) \in [Frames -> Nat]
             /\ \A fs : Release(Acquire(refs, rs, 1), fs) \in [Frames -> Nat]
  BY <1>1, AcquireCounts, ReleaseCounts
<1>3. \A status \in Status : Updated(table, t, status) \in Slot(TableState)
  BY <1>1, UpdatedTypes
<1>4. CASE Launch(t)
  <2>1. Typed(table', tasks', refs', nextTask')
    BY <1>1, <1>3, <1>4, PhaseTypes DEF Launch, Typed, Status
  <2>2. QED
    BY <1>0, <1>4, <2>1 DEF Launch, TypeOK, Typed, Requests
<1>5. CASE FilterCompletes(t)
  <2>1. Typed(table', tasks', refs', nextTask') /\ queue' \in Requests
    <3> DEFINE acquired == Acquire(refs, ResultFrame(t), 1)
    <3>1. CASE AcceptsFilter(t)
      <4>1. Settles(Filtered(t), Release(acquired, Replaced(t)), tasks \ {t})
        BY <1>5, <3>1 DEF FilterCompletes
      <4>2. Filtered(t) \in Slot(TableState)
        BY <1>1, <3>1, ResultTypes DEF Slot
      <4>3. Typed(Filtered(t), tasks \ {t}, Release(acquired, Replaced(t)), nextTask)
        BY <1>1, <1>2, <4>2 DEF Typed
      <4>4. QED
        BY <1>0, <4>1, <4>3, SettlesTypes
    <3>2. CASE ~AcceptsFilter(t)
      <4>1. Settles(table, Release(acquired, ResultFrame(t)), tasks \ {t})
        BY <1>5, <3>2 DEF FilterCompletes
      <4>2. Typed(table, tasks \ {t}, Release(acquired, ResultFrame(t)), nextTask)
        BY <1>1, <1>2 DEF Typed
      <4>3. QED
        BY <1>0, <4>1, <4>2, SettlesTypes
    <3>3. QED
      BY <3>1, <3>2
  <2>2. QED
    BY <1>0, <1>5, <2>1 DEF FilterCompletes, TypeOK, Typed, Requests
<1>6. CASE OrderingCompletes(t)
  <2>1. table' \in Slot(TableState)
    BY <1>1, <1>6, ResultTypes DEF OrderingCompletes, Slot
  <2>2. refs' \in [Frames -> Nat]
    BY <1>2, <1>6 DEF OrderingCompletes
  <2>3. QED
    BY <1>0, <1>1, <1>6, <2>1, <2>2 DEF OrderingCompletes, TypeOK, Requests
<1>7. CASE AggregateCompletes(t)
  <2>1. table' \in Slot(TableState)
    BY <1>1, <1>7, ResultTypes DEF AggregateCompletes, Running, Slot
  <2>2. refs' \in [Frames -> Nat]
    BY <1>2, <1>7 DEF AggregateCompletes
  <2>3. QED
    BY <1>0, <1>1, <1>7, <2>1, <2>2 DEF AggregateCompletes, TypeOK, Requests
<1>8. CASE TaskFails(t)
  <2> DEFINE others == (tasks \ {t}) \cup {[t EXCEPT !.phase = "failed"]}
             after == Updated(table, t, "failed")
  <2>1. Typed(after, others, refs, nextTask)
    BY <1>1, <1>3, PhaseTypes DEF Typed, Status
  <2>2. CASE t.kind = "filter"
    <3>1. Settles(after, refs, others)
      BY <1>8, <2>2 DEF TaskFails
    <3>2. Typed(table', tasks', refs', nextTask') /\ queue' \in Requests
      <4> HIDE DEF others, after
      <4>1. QED
        BY <1>0, <2>1, <3>1, SettlesTypes
    <3>3. QED
      BY <1>0, <1>8, <3>2 DEF TaskFails, TypeOK, Typed, Requests
  <2>3. CASE t.kind # "filter"
    <3>1. Typed(table', tasks', refs', nextTask')
      BY <1>8, <2>1, <2>3 DEF TaskFails
    <3>2. QED
      BY <1>0, <1>8, <2>3, <3>1 DEF TaskFails, TypeOK, Typed, Requests
  <2>4. QED
    BY <2>2, <2>3
<1>9. QED
  BY <1>4, <1>5, <1>6, <1>7, <1>8

\* The table state, the tasks, the frame counts and the filter queue keep their shape.
THEOREM TypeCorrect == Spec => []TypeOK
<1>1. Init => TypeOK
  <2> SUFFICES ASSUME Init PROVE TypeOK
    OBVIOUS
  <2>1. Analysed \in TableState
    BY EmptySelection DEF Analysed, TableState, Slot, AnyOrder
  <2>2. refs \in [Frames -> Nat]
    BY DEF Init
  <2>3. QED
    BY <2>1, <2>2 DEF Init, TypeOK, Slot
<1>2. TypeOK /\ [Next]_vars => TypeOK'
  <2> SUFFICES ASSUME TypeOK, [Next]_vars PROVE TypeOK'
    OBVIOUS
  <2>1. CASE UNCHANGED vars
    BY <2>1 DEF vars, TypeOK
  <2>2. CASE Next
    BY <2>2, UserTypes, EffectTypes, TaskTypes DEF Next, Progress
  <2>3. QED
    BY <2>1, <2>2
<1>3. QED
  BY <1>1, <1>2, PTL DEF Spec

-----------------------------------------------------------------------------
(* The latest filter                                                        *)

\* The filter tasks that may still write the slot of the filter.
Unfinished(ts) == {t \in ts : t.kind = "filter" /\ t.phase # "failed"}

\* A filter that is not finished is that of the slot and of the latest version; so
\* is the filter table that is shown, when it has the latest version.
Fits(tb, ts) ==
    tb # Nothing =>
        /\ \A t \in Unfinished(ts) : t.version = tb.version /\ tb.filtering.filters = t.filters
        /\ tb.filterTable # Nothing =>
               /\ tb.filterTable.version <= tb.version
               /\ tb.filterTable.version = tb.version =>
                      tb.filtering.filters = tb.filterTable.filters

\* One filter runs at a time, and the queue knows it.
OneFilter(ts, active) ==
    /\ \A t, u \in Unfinished(ts) : t = u
    /\ active = Nothing => Unfinished(ts) = {}

LatestInv == Fits(table, tasks) /\ OneFilter(tasks, queue.active)

\* A filter is scheduled when no other one is unfinished.
LEMMA FilterScheduledFits ==
    ASSUME NEW before, NEW counts, NEW others, NEW filters \in Selections,
           Typed(before, others, counts, nextTask), Fits(before, others), Unfinished(others) = {},
           SchedulesFilter(before, counts, others, filters)
    PROVE  Fits(table', tasks') /\ \A t, u \in Unfinished(tasks') : t = u
<1>1. CASE before = Nothing
  BY <1>1 DEF SchedulesFilter, Fits
<1>2. CASE before # Nothing
  <2>1. before \in TableState /\ before.version \in Nat
        /\ (before.filterTable # Nothing => before.filterTable.version \in Nat)
    BY <1>2 DEF Typed, Slot, TableState, FilterResult
  <2> DEFINE slot == [version |-> before.version + 1, filters |-> filters, status |-> "running"]
             new == [id |-> nextTask, kind |-> "filter", version |-> before.version + 1,
                     filters |-> filters, by |-> Unordered, of |-> Nothing, phase |-> "scheduled"]
  <2>2. /\ table' = [before EXCEPT !.version = before.version + 1, !.filtering = slot]
        /\ tasks' = others \cup {new}
    BY <1>2 DEF SchedulesFilter
  <2>3. /\ table'.version = before.version + 1 /\ table'.filterTable = before.filterTable
        /\ table'.filtering = slot
    BY <2>1, <2>2 DEF TableState
  <2>4. Unfinished(tasks') = {new}
    BY <2>2 DEF Unfinished
  <2>5. before.filterTable # Nothing => before.filterTable.version <= before.version
    BY <1>2 DEF Fits
  <2>6. new.version = before.version + 1 /\ new.filters = filters /\ slot.filters = filters
    OBVIOUS
  <2> HIDE DEF slot, new
  <2>7. QED
    BY <2>1, <2>3, <2>4, <2>5, <2>6 DEF Fits
<1>3. QED
  BY <1>1, <1>2

\* The queue launches its pending filter when the active one is finished.
LEMMA SettlesFits ==
    ASSUME NEW after, NEW counts, NEW others, Typed(after, others, counts, nextTask),
           queue \in Requests, Fits(after, others), Unfinished(others) = {},
           Settles(after, counts, others)
    PROVE  LatestInv'
<1>1. queue'.active = queue.pending
  BY DEF Settles
<1>2. CASE queue.pending = Nothing
  BY <1>1, <1>2 DEF Settles, LatestInv, OneFilter
<1>3. CASE queue.pending # Nothing
  <2>1. queue.pending.filters \in Selections
    BY <1>3 DEF Requests, Slot, Request
  <2>2. SchedulesFilter(after, counts, others, queue.pending.filters)
    BY <1>3 DEF Settles
  <2>3. Fits(table', tasks') /\ \A t, u \in Unfinished(tasks') : t = u
    BY <2>1, <2>2, FilterScheduledFits
  <2>4. QED
    BY <1>1, <1>3, <2>3 DEF LatestInv, OneFilter
<1>4. QED
  BY <1>2, <1>3

\* A step that leaves the version, the filter table and the filters of the slot.
LEMMA FitsKept ==
    ASSUME NEW tb, NEW ts, NEW tb2, NEW ts2, Fits(tb, ts), Unfinished(ts2) \subseteq Unfinished(ts),
           tb2 # Nothing => /\ tb # Nothing
                            /\ tb2.version = tb.version /\ tb2.filterTable = tb.filterTable
                            /\ tb2.filtering.filters = tb.filtering.filters
    PROVE  Fits(tb2, ts2)
BY DEF Fits

\* The user and the effects.
LEMMA EffectFits ==
    ASSUME TypeOK, LatestInv,
           \/ \E f \in Selections : Select(f)
           \/ \E o \in Orders : Sort(o)
           \/ ClearOrdering \/ DeleteComputation \/ Render \/ OrderEffect
           \/ \E v \in Views : FilterEffect(v) \/ SummaryEffect(v)
    PROVE  LatestInv'
<1>0. /\ Typed(table, tasks, refs, nextTask)
      /\ seen.table \in Slot(TableState) /\ (due # {} => seen.table # Nothing)
      /\ queue \in Requests
      /\ (table # Nothing => table \in TableState)
  BY TypeParts DEF Typed, Slot
<1>1. CASE \E f \in Selections : Select(f)
  <2>1. /\ table # Nothing /\ UNCHANGED <<tasks, queue>>
        /\ \E f \in Selections : table' = [table EXCEPT !.selection = f]
    BY <1>1 DEF Select
  <2>2. table'.version = table.version /\ table'.filterTable = table.filterTable
        /\ table'.filtering = table.filtering
    BY <1>0, <2>1 DEF TableState
  <2>3. QED
    BY <2>1, <2>2, FitsKept DEF LatestInv
<1>2. ASSUME UNCHANGED queue,
             \/ UNCHANGED <<table, tasks>>
             \/ \E version, of, by : SchedulesOrdering(version, of, by)
             \/ \E of : SchedulesAggregate(of)
      PROVE  LatestInv'
  <2>1. CASE UNCHANGED <<table, tasks>>
    BY <1>2, <2>1 DEF LatestInv
  <2>2. CASE \E version, of, by : SchedulesOrdering(version, of, by)
    <3>1. Unfinished(tasks') = Unfinished(tasks)
      BY <2>2 DEF SchedulesOrdering, Unfinished
    <3>2. table' # Nothing => table # Nothing
      BY <2>2 DEF SchedulesOrdering
    <3>3. table # Nothing => \E slot : table' = [table EXCEPT !.ordering = slot]
      BY <2>2 DEF SchedulesOrdering
    <3>4. table # Nothing => /\ table'.version = table.version
                             /\ table'.filterTable = table.filterTable
                             /\ table'.filtering = table.filtering
      BY <1>0, <3>3 DEF TableState
    <3>5. QED
      BY <1>2, <3>1, <3>2, <3>4, FitsKept DEF LatestInv, OneFilter
  <2>3. CASE \E of : SchedulesAggregate(of)
    <3>1. Unfinished(tasks') = Unfinished(tasks)
      BY <2>3 DEF SchedulesAggregate, Unfinished
    <3>2. table' # Nothing => table # Nothing
      BY <2>3 DEF SchedulesAggregate
    <3>3. table # Nothing => \E slot : table' = [table EXCEPT !.aggregating = slot]
      BY <2>3 DEF SchedulesAggregate
    <3>4. table # Nothing => /\ table'.version = table.version
                             /\ table'.filterTable = table.filterTable
                             /\ table'.filtering = table.filtering
      BY <1>0, <3>3 DEF TableState
    <3>5. QED
      BY <1>2, <3>1, <3>2, <3>4, FitsKept DEF LatestInv, OneFilter
  <2>4. QED
    BY <1>2, <2>1, <2>2, <2>3
<1>3. CASE \E o \in Orders : Sort(o)
  BY <1>2, <1>3 DEF Sort
<1>4. CASE ClearOrdering
  <2>1. /\ table # Nothing /\ UNCHANGED <<tasks, queue>>
        /\ \E slot : table' = [table EXCEPT !.orderedBy = Unordered, !.orderingTable = Nothing,
                                              !.ordering = slot]
    BY <1>4 DEF ClearOrdering
  <2>2. table'.version = table.version /\ table'.filterTable = table.filterTable
        /\ table'.filtering = table.filtering
    BY <1>0, <2>1 DEF TableState
  <2>3. QED
    BY <2>1, <2>2, FitsKept DEF LatestInv
<1>5. CASE DeleteComputation
  BY <1>5 DEF DeleteComputation, LatestInv, Fits
<1>6. CASE Render
  BY <1>6 DEF Render, LatestInv
<1>7. CASE OrderEffect
  BY <1>2, <1>7 DEF OrderEffect
<1>8. CASE \E v \in Views : SummaryEffect(v)
  BY <1>2, <1>8 DEF SummaryEffect
<1>9. CASE \E v \in Views : FilterEffect(v)
  <2>1. PICK v \in Views : FilterEffect(v)
    BY <1>9
  <2> DEFINE key == [version |-> seen.table.version, filters |-> seen.table.selection]
  <2>2. seen.table \in TableState
    BY <1>0, <2>1 DEF FilterEffect, Slot
  <2>3. key \in Request /\ seen.table.selection \in Selections
    BY <2>2 DEF Request, TableState
  <2>4. CASE /\ queue.active # Nothing \/ queue' = queue
             /\ queue' = queue \/ \E p : queue' = [queue EXCEPT !.pending = p]
             /\ UNCHANGED <<table, tasks>>
    <3>1. queue'.active = queue.active
      BY <1>0, <2>4 DEF Requests
    <3>2. QED
      BY <2>4, <3>1 DEF LatestInv
  <2>5. CASE /\ queue.active = Nothing /\ queue' = [queue EXCEPT !.active = key]
             /\ SchedulesFilter(table, refs, tasks, seen.table.selection)
    <3>1. Unfinished(tasks) = {}
      BY <2>5 DEF LatestInv, OneFilter
    <3>2. Fits(table', tasks') /\ \A t, u \in Unfinished(tasks') : t = u
      BY <1>0, <2>3, <2>5, <3>1, FilterScheduledFits DEF LatestInv
    <3>3. queue'.active = key
      BY <1>0, <2>5 DEF Requests
    <3>4. queue'.active # Nothing
      <4> HIDE DEF key
      <4>1. QED
        BY <2>3, <3>3, NothingIsNoRequest
    <3>5. QED
      BY <3>2, <3>4 DEF LatestInv, OneFilter
  <2>6. QED
    BY <2>1, <2>4, <2>5 DEF FilterEffect
<1>10. QED
  BY <1>1, <1>3, <1>4, <1>5, <1>6, <1>7, <1>8, <1>9

\* A slot update writes the filters of the task into the slot of the filter, and
\* only if the task is a filter.
LEMMA UpdatedFits ==
    ASSUME NEW tb \in TableState, NEW t \in SchedulerTask, NEW status, tb # Nothing
    PROVE  LET after == Updated(tb, t, status) IN
           /\ after.version = tb.version /\ after.filterTable = tb.filterTable
           /\ after.filtering.filters = IF t.kind = "filter" THEN t.filters ELSE tb.filtering.filters
<1>1. CASE t.kind = "filter"
  <2>1. Updated(tb, t, status) =
            [tb EXCEPT !.filtering = [version |-> tb.version, filters |-> t.filters, status |-> status]]
    BY <1>1 DEF Updated
  <2>2. QED
    BY <1>1, <2>1 DEF TableState
<1>2. CASE t.kind = "order"
  <2>1. \E slot : Updated(tb, t, status) \in {tb, [tb EXCEPT !.ordering = slot]}
    BY <1>2 DEF Updated
  <2>2. QED
    BY <1>2, <2>1 DEF TableState
<1>3. CASE t.kind = "aggregate"
  <2>1. \E slot : Updated(tb, t, status) = [tb EXCEPT !.aggregating = slot]
    BY <1>3 DEF Updated
  <2>2. QED
    BY <1>3, <2>1 DEF TableState
<1>4. QED
  BY <1>1, <1>2, <1>3 DEF SchedulerTask

\* The scheduler.
LEMMA TaskFits ==
    ASSUME TypeOK, LatestInv, NEW t \in tasks,
           \/ Launch(t) \/ FilterCompletes(t) \/ OrderingCompletes(t)
           \/ AggregateCompletes(t) \/ TaskFails(t)
    PROVE  LatestInv'
<1>0. /\ Typed(table, tasks, refs, nextTask)
      /\ queue \in Requests
      /\ (table # Nothing => table \in TableState)
      /\ t \in SchedulerTask /\ tasks \subseteq SchedulerTask
      /\ refs \in [Frames -> Nat] /\ nextTask \in Nat \ {0}
      /\ (t.kind = "aggregate" => t.of \in FilterResult)
      /\ \A u \in tasks : u.kind = "aggregate" => u.of \in FilterResult
  BY TypeParts DEF Typed, Slot
<1>1. \A status \in Status : Updated(table, t, status) \in Slot(TableState)
  BY <1>0, UpdatedTypes DEF Typed
<1>2. \A rs : \A fs : Release(Acquire(refs, rs, 1), fs) \in [Frames -> Nat]
  BY <1>0, AcquireCounts, ReleaseCounts
<1>3. t \in Unfinished(tasks) => Unfinished(tasks \ {t}) = {}
  BY DEF LatestInv, OneFilter, Unfinished
<1>4. CASE Launch(t)
  <2> DEFINE moved == [t EXCEPT !.phase = "running"]
  <2>1. moved.kind = t.kind /\ moved.version = t.version /\ moved.filters = t.filters
        /\ moved.phase = "running"
    BY <1>0, PhaseTypes
  <2>2. tasks' = (tasks \ {t}) \cup {moved} /\ table' = Updated(table, t, "running")
        /\ queue' = queue /\ t.phase = "scheduled"
    BY <1>4 DEF Launch, Waiting
  <2> HIDE DEF moved
  <2>3. CASE t.kind = "filter"
    <3>1. t \in Unfinished(tasks)
      BY <2>2, <2>3 DEF Unfinished
    <3>2. Unfinished(tasks') = {moved}
      BY <1>3, <2>1, <2>2, <2>3, <3>1 DEF Unfinished
    <3>3. table = Nothing => table' = Nothing
      BY <2>2 DEF Updated
    <3>4. table # Nothing => /\ table'.version = table.version
                             /\ table'.filterTable = table.filterTable
                             /\ table'.filtering.filters = t.filters
      BY <1>0, <2>2, <2>3, UpdatedFits
    <3>5. table # Nothing => t.version = table.version /\ table.filtering.filters = t.filters
      BY <3>1 DEF LatestInv, Fits
    <3>6. Fits(table', tasks')
      BY <2>1, <3>2, <3>3, <3>4, <3>5 DEF LatestInv, Fits
    <3>7. queue.active # Nothing
      BY <3>1 DEF LatestInv, OneFilter
    <3>8. QED
      BY <2>2, <3>2, <3>6, <3>7 DEF LatestInv, OneFilter
  <2>4. CASE t.kind # "filter"
    <3>1. Unfinished(tasks') = Unfinished(tasks)
      BY <2>1, <2>2, <2>4 DEF Unfinished
    <3>2. table = Nothing => table' = Nothing
      BY <2>2 DEF Updated
    <3>3. table # Nothing => /\ table'.version = table.version
                             /\ table'.filterTable = table.filterTable
                             /\ table'.filtering.filters = table.filtering.filters
      BY <1>0, <2>2, <2>4, UpdatedFits
    <3>4. QED
      BY <2>2, <3>1, <3>2, <3>3, FitsKept DEF LatestInv, OneFilter
  <2>5. QED
    BY <2>3, <2>4
<1>5. CASE FilterCompletes(t)
  <2> DEFINE acquired == Acquire(refs, ResultFrame(t), 1)
  <2>1. t \in Unfinished(tasks) /\ t.kind = "filter"
    BY <1>5 DEF FilterCompletes, Running, Unfinished
  <2>2. Unfinished(tasks \ {t}) = {}
    BY <1>3, <2>1
  <2>3. CASE AcceptsFilter(t)
    <3>1. Settles(Filtered(t), Release(acquired, Replaced(t)), tasks \ {t})
      BY <1>5, <2>3 DEF FilterCompletes
    <3>2. Filtered(t) \in Slot(TableState)
      BY <1>0, <2>3, ResultTypes DEF Slot, Typed
    <3>3. Typed(Filtered(t), tasks \ {t}, Release(acquired, Replaced(t)), nextTask)
      BY <1>0, <1>2, <3>2 DEF Typed
    <3>4. table \in TableState /\ table # Nothing /\ t.version = table.version
      BY <1>0, <2>3 DEF AcceptsFilter
    <3>5. /\ Filtered(t).version = table.version
          /\ Filtered(t).filterTable =
                 IF t.filters = NoFilter THEN Nothing
                 ELSE [version |-> t.version, filters |-> t.filters, frame |-> t.id]
          /\ Filtered(t).filtering = IF table.filtering = Nothing THEN Nothing
                                     ELSE [table.filtering EXCEPT !.status = "succeeded"]
      BY <3>4 DEF Filtered, TableState
    <3>6. Filtered(t).filtering.filters = table.filtering.filters
      BY <3>4, <3>5 DEF TableState, Slot
    <3>7. table.filtering.filters = t.filters
      BY <2>1, <3>4 DEF LatestInv, Fits
    <3>8. t.version \in Nat
      BY <1>0 DEF SchedulerTask
    <3>9. Filtered(t).filterTable # Nothing => /\ Filtered(t).filterTable.version = t.version
                                              /\ Filtered(t).filterTable.filters = t.filters
      BY <3>5
    <3>10. Fits(Filtered(t), tasks \ {t})
      BY <2>2, <3>4, <3>5, <3>6, <3>7, <3>8, <3>9 DEF Fits
    <3>11. QED
      BY <1>0, <2>2, <3>1, <3>3, <3>10, SettlesFits
  <2>4. CASE ~AcceptsFilter(t)
    <3>1. Settles(table, Release(acquired, ResultFrame(t)), tasks \ {t})
      BY <1>5, <2>4 DEF FilterCompletes
    <3>2. Typed(table, tasks \ {t}, Release(acquired, ResultFrame(t)), nextTask)
      BY <1>0, <1>2 DEF Typed
    <3>3. Fits(table, tasks \ {t})
      BY FitsKept DEF LatestInv, Unfinished
    <3>4. QED
      BY <1>0, <2>2, <3>1, <3>2, <3>3, SettlesFits
  <2>5. QED
    BY <2>3, <2>4
<1>6. CASE OrderingCompletes(t)
  <2>1. tasks' = tasks \ {t} /\ queue' = queue /\ t.kind = "order"
        /\ (table' = table \/ (AcceptsOrdering(t) /\ table' = Ordered(t)))
    BY <1>6 DEF OrderingCompletes, Running
  <2>2. Unfinished(tasks') = Unfinished(tasks)
    BY <2>1 DEF Unfinished
  <2>3. AcceptsOrdering(t) => /\ table # Nothing
                              /\ Ordered(t).version = table.version
                              /\ Ordered(t).filterTable = table.filterTable
                              /\ Ordered(t).filtering = table.filtering
    BY <1>0 DEF AcceptsOrdering, Ordered, TableState
  <2>4. QED
    BY <2>1, <2>2, <2>3, FitsKept DEF LatestInv, OneFilter
<1>7. CASE AggregateCompletes(t)
  <2>1. tasks' = tasks \ {t} /\ queue' = queue /\ t.kind = "aggregate"
        /\ (table' = table \/ (AcceptsAggregate(t) /\ table' = Aggregated(t)))
    BY <1>7 DEF AggregateCompletes, Running
  <2>2. Unfinished(tasks') = Unfinished(tasks)
    BY <2>1 DEF Unfinished
  <2>3. AcceptsAggregate(t) => /\ table # Nothing
                               /\ Aggregated(t).version = table.version
                               /\ Aggregated(t).filterTable = table.filterTable
                               /\ Aggregated(t).filtering = table.filtering
    BY <1>0 DEF AcceptsAggregate, Aggregated, TableState
  <2>4. QED
    BY <2>1, <2>2, <2>3, FitsKept DEF LatestInv, OneFilter
<1>8. CASE TaskFails(t)
  <2> DEFINE moved == [t EXCEPT !.phase = "failed"]
             others == (tasks \ {t}) \cup {moved}
             after == Updated(table, t, "failed")
  <2>1. moved.kind = t.kind /\ moved.phase = "failed"
    BY <1>0, PhaseTypes
  <2>2. Typed(after, others, refs, nextTask)
    BY <1>0, <1>1, PhaseTypes DEF Typed, Status
  <2>3. t.phase = "running"
    BY <1>8 DEF TaskFails
  <2>4. Unfinished(others) = Unfinished(tasks) \ {t}
    <3> HIDE DEF moved
    <3>1. QED
      BY <2>1 DEF Unfinished
  <2>5. table = Nothing => after = Nothing
    BY DEF Updated
  <2>6. table # Nothing =>
            /\ after.version = table.version /\ after.filterTable = table.filterTable
            /\ after.filtering.filters = IF t.kind = "filter" THEN t.filters
                                         ELSE table.filtering.filters
    BY <1>0, UpdatedFits
  <2>7. t.kind = "filter" => t \in Unfinished(tasks)
    BY <2>3 DEF Unfinished
  <2>8. t.kind = "filter" /\ table # Nothing => table.filtering.filters = t.filters
    BY <2>7 DEF LatestInv, Fits
  <2>9. Fits(after, others)
    <3> HIDE DEF after, others
    <3>1. QED
      BY <2>4, <2>5, <2>6, <2>8, FitsKept DEF LatestInv
  <2>10. CASE t.kind = "filter"
    <3>1. Settles(after, refs, others)
      BY <1>8, <2>10 DEF TaskFails
    <3>2. Unfinished(others) = {}
      BY <2>4, <2>7, <2>10 DEF LatestInv, OneFilter
    <3> HIDE DEF after, others
    <3>3. QED
      BY <1>0, <2>2, <2>9, <3>1, <3>2, SettlesFits
  <2>11. CASE t.kind # "filter"
    <3>1. table' = after /\ tasks' = others /\ queue' = queue
      BY <1>8, <2>11 DEF TaskFails
    <3> HIDE DEF after, others
    <3>2. QED
      BY <2>4, <2>9, <3>1 DEF LatestInv, OneFilter
  <2>12. QED
    BY <2>10, <2>11
<1>9. QED
  BY <1>4, <1>5, <1>6, <1>7, <1>8

\* When the filtering effect finds the table up to date, the filter table that is
\* shown is that of the current selection: the version is allocated when a filter is
\* scheduled, and no second filter is scheduled before the first is finished.
THEOREM LatestIsShown == Spec => []LatestFilterIsShown
<1>1. Init => LatestInv
  BY DEF Init, LatestInv, Fits, OneFilter, Unfinished, Analysed
<1>2. TypeOK /\ LatestInv /\ [Next]_vars => LatestInv'
  <2> SUFFICES ASSUME TypeOK, LatestInv, [Next]_vars PROVE LatestInv'
    OBVIOUS
  <2>1. CASE UNCHANGED vars
    BY <2>1 DEF vars, LatestInv
  <2>2. CASE Next
    BY <2>2, EffectFits, TaskFits DEF Next, Progress
  <2>3. QED
    BY <2>1, <2>2
<1>3. LatestInv => LatestFilterIsShown
  BY DEF LatestInv, Fits, LatestFilterIsShown, FilterIsUpToDate
<1>4. QED
  BY <1>1, <1>2, <1>3, TypeCorrect, PTL DEF Spec

-----------------------------------------------------------------------------
(* The results that are shown, and their frames                             *)

ShownFrames(tb) == FrameOf(tb.filterTable) \cup FrameOf(tb.orderingTable) \cup FrameOf(tb.aggregate)

\* The ids of tasks are distinct and used up.
Ids(ts, next) ==
    /\ \A t, u \in ts : t.id = u.id => t = u
    /\ \A t \in ts : t.id < next

\* The shown results have frames of their own, with a count, and no task that may
\* still end has one of them.
Alive(tb, ts, counts, next) ==
    tb # Nothing =>
        /\ counts[DataFrame] > 0
        /\ \A f \in ShownFrames(tb) :
               counts[f] > 0 /\ f # DataFrame /\ f < next /\ \A t \in ts : t.id # f
        /\ FrameOf(tb.filterTable) \cap FrameOf(tb.orderingTable) = {}
        /\ FrameOf(tb.filterTable) \cap FrameOf(tb.aggregate) = {}
        /\ FrameOf(tb.orderingTable) \cap FrameOf(tb.aggregate) = {}

SummaryFits(tb) ==
    tb # Nothing /\ tb.aggregate # Nothing /\ tb.filterTable # Nothing /\ ~tb.outdated =>
        tb.aggregate.version = tb.filterTable.version

Sound(tb, ts, counts, next) == Ids(ts, next) /\ Alive(tb, ts, counts, next) /\ SummaryFits(tb)

SameResults(tb, tb2) ==
    tb2 # Nothing => /\ tb # Nothing
                     /\ tb2.filterTable = tb.filterTable /\ tb2.orderingTable = tb.orderingTable
                     /\ tb2.aggregate = tb.aggregate /\ tb2.outdated = tb.outdated

\* The frames of a table are frames.
LEMMA FramesAreFrames ==
    ASSUME NEW tb \in TableState
    PROVE  ShownFrames(tb) \subseteq Frames
BY DEF ShownFrames, FrameOf, TableState, Slot, FilterResult, OrderingResult, Summary

\* The results stay, counts grow, and tasks keep their ids or take new ones.
LEMMA SoundKept ==
    ASSUME NEW tb, NEW ts, NEW counts, NEW next, NEW tb2, NEW ts2, NEW counts2, NEW next2,
           Typed(tb, ts, counts, next), Sound(tb, ts, counts, next),
           SameResults(tb, tb2), Ids(ts2, next2), next2 \in Nat, next2 >= next,
           counts2 \in [Frames -> Nat], \A f \in Frames : counts2[f] >= counts[f],
           \A u \in ts2 : (\E w \in ts : w.id = u.id) \/ u.id = next
    PROVE  Sound(tb2, ts2, counts2, next2)
<1>1. SummaryFits(tb2)
  BY DEF Sound, SameResults, SummaryFits
<1>2. ASSUME tb2 # Nothing PROVE Alive(tb2, ts2, counts2, next2)
  <2>1. tb \in TableState /\ ShownFrames(tb2) = ShownFrames(tb)
    BY <1>2 DEF SameResults, ShownFrames, Typed, Slot
  <2>2. DataFrame \in Frames /\ ShownFrames(tb) \subseteq Frames
    BY <2>1, FramesAreFrames, BoundsAreNumbers DEF DataFrame, Frames
  <2>3. counts \in [Frames -> Nat] /\ next \in Nat
    BY DEF Typed
  <2>4. \A f \in ShownFrames(tb) :
            counts2[f] > 0 /\ f # DataFrame /\ f < next2 /\ \A u \in ts2 : u.id # f
    <3> SUFFICES ASSUME NEW f \in ShownFrames(tb)
                 PROVE  counts2[f] > 0 /\ f # DataFrame /\ f < next2 /\ \A u \in ts2 : u.id # f
      OBVIOUS
    <3>1. counts[f] > 0 /\ f # DataFrame /\ f < next /\ \A w \in ts : w.id # f
      BY <1>2 DEF Sound, Alive, SameResults
    <3>2. f \in Nat /\ counts[f] \in Nat /\ counts2[f] \in Nat /\ counts2[f] >= counts[f]
      BY <2>2, <2>3 DEF Frames
    <3>3. \A u \in ts2 : u.id # f
      BY <2>3, <3>1, <3>2
    <3>4. QED
      BY <2>3, <3>1, <3>2, <3>3
  <2>5. counts2[DataFrame] > 0
    <3>1. counts[DataFrame] > 0
      BY <1>2 DEF Sound, Alive, SameResults
    <3>2. QED
      BY <2>2, <2>3, <3>1
  <2>6. QED
    BY <1>2, <2>1, <2>4, <2>5 DEF Alive, Sound, SameResults
<1>3. QED
  BY <1>1, <1>2 DEF Sound, Alive

\* A new task takes the next id.
LEMMA NewTask ==
    ASSUME NEW ts, NEW next \in Nat, ts \subseteq SchedulerTask, Ids(ts, next), NEW new, new.id = next
    PROVE  Ids(ts \cup {new}, next + 1)
<1>1. \A t \in ts : t.id \in Nat
  BY DEF SchedulerTask, Frames
<1>2. QED
  BY <1>1 DEF Ids

\* Scheduling a filter.
LEMMA FilterScheduledSound ==
    ASSUME NEW before, NEW counts, NEW others, NEW filters \in Selections,
           Typed(before, others, counts, nextTask), Sound(before, others, counts, nextTask),
           SchedulesFilter(before, counts, others, filters)
    PROVE  Sound(table', tasks', refs', nextTask')
<1>1. CASE before = Nothing
  BY <1>1 DEF SchedulesFilter, Sound, Alive, SummaryFits
<1>2. CASE before # Nothing
  <2> DEFINE slot == [version |-> before.version + 1, filters |-> filters, status |-> "running"]
             new == [id |-> nextTask, kind |-> "filter", version |-> before.version + 1,
                     filters |-> filters, by |-> Unordered, of |-> Nothing, phase |-> "scheduled"]
  <2>1. /\ table' = [before EXCEPT !.version = before.version + 1, !.filtering = slot]
        /\ tasks' = others \cup {new} /\ nextTask' = nextTask + 1
        /\ refs' = Acquire(counts, {DataFrame}, 2)
    BY <1>2 DEF SchedulesFilter
  <2>2. new.id = nextTask
    OBVIOUS
  <2> HIDE DEF slot, new
  <2>3. nextTask \in Nat /\ others \subseteq SchedulerTask /\ counts \in [Frames -> Nat]
        /\ before \in TableState
    BY <1>2 DEF Typed, Slot
  <2>4. SameResults(before, table')
    BY <1>2, <2>1, <2>3 DEF SameResults, TableState
  <2>5. Ids(tasks', nextTask')
    BY <2>1, <2>2, <2>3, NewTask DEF Sound
  <2>6. refs' \in [Frames -> Nat] /\ \A f \in Frames : refs'[f] >= counts[f]
    BY <2>1, <2>3, AcquireCounts
  <2>7. \A u \in tasks' : (\E w \in others : w.id = u.id) \/ u.id = nextTask
    BY <2>1, <2>2
  <2>8. nextTask' \in Nat /\ nextTask' >= nextTask
    BY <2>1, <2>3
  <2>9. QED
    BY <2>4, <2>5, <2>6, <2>7, <2>8, SoundKept
<1>3. QED
  BY <1>1, <1>2

\* Launching the pending filter.
LEMMA SettlesSound ==
    ASSUME NEW after, NEW counts, NEW others, Typed(after, others, counts, nextTask),
           queue \in Requests, Sound(after, others, counts, nextTask),
           Settles(after, counts, others)
    PROVE  Sound(table', tasks', refs', nextTask')
<1>1. CASE queue.pending = Nothing
  BY <1>1 DEF Settles
<1>2. CASE queue.pending # Nothing
  <2>1. queue.pending.filters \in Selections
    BY <1>2 DEF Requests, Slot, Request
  <2>2. SchedulesFilter(after, counts, others, queue.pending.filters)
    BY <1>2 DEF Settles
  <2>3. QED
    BY <2>1, <2>2, FilterScheduledSound
<1>3. QED
  BY <1>1, <1>2

\* Scheduling an ordering or a summary.
LEMMA OthersScheduledSound ==
    ASSUME Typed(table, tasks, refs, nextTask), Sound(table, tasks, refs, nextTask),
           \/ \E version, of, by : SchedulesOrdering(version, of, by)
           \/ \E of : SchedulesAggregate(of)
    PROVE  Sound(table', tasks', refs', nextTask')
<1>1. CASE table = Nothing
  BY <1>1 DEF SchedulesOrdering, SchedulesAggregate
<1>2. CASE table # Nothing
  <2>1. /\ \/ \E slot : table' = [table EXCEPT !.ordering = slot]
           \/ \E slot : table' = [table EXCEPT !.aggregating = slot]
        /\ \E new : tasks' = tasks \cup {new} /\ new.id = nextTask
        /\ nextTask' = nextTask + 1
        /\ \E frames : refs' = Acquire(refs, frames, 2)
    <3>1. CASE \E version, of, by : SchedulesOrdering(version, of, by)
      <4>1. PICK version, of, by : SchedulesOrdering(version, of, by)
        BY <3>1
      <4> DEFINE slot == [version |-> table.version, of |-> of, by |-> by, status |-> "running"]
                 new == [id |-> nextTask, kind |-> "order", version |-> version, filters |-> NoFilter,
                         by |-> by, of |-> of, phase |-> "scheduled"]
      <4>2. /\ table' = [table EXCEPT !.ordering = slot]
            /\ tasks' = tasks \cup {new} /\ nextTask' = nextTask + 1
            /\ refs' = Acquire(refs, {DataFrame} \cup FrameOf(of), 2)
        BY <1>2, <4>1 DEF SchedulesOrdering
      <4>3. new.id = nextTask
        OBVIOUS
      <4> HIDE DEF slot, new
      <4>4. QED
        BY <4>2, <4>3
    <3>2. CASE \E of : SchedulesAggregate(of)
      <4>1. PICK of : SchedulesAggregate(of)
        BY <3>2
      <4> DEFINE slot == [of |-> of, status |-> "running"]
                 new == [id |-> nextTask, kind |-> "aggregate", version |-> of.version,
                         filters |-> NoFilter, by |-> Unordered, of |-> of, phase |-> "scheduled"]
      <4>2. /\ table' = [table EXCEPT !.aggregating = slot]
            /\ tasks' = tasks \cup {new} /\ nextTask' = nextTask + 1
            /\ refs' = Acquire(refs, {DataFrame} \cup FrameOf(of), 2)
        BY <1>2, <4>1 DEF SchedulesAggregate
      <4>3. new.id = nextTask
        OBVIOUS
      <4> HIDE DEF slot, new
      <4>4. QED
        BY <4>2, <4>3
    <3>3. QED
      BY <3>1, <3>2
  <2>2. nextTask \in Nat /\ tasks \subseteq SchedulerTask /\ refs \in [Frames -> Nat]
        /\ table \in TableState
    BY <1>2 DEF Typed, Slot
  <2>3. SameResults(table, table')
    BY <1>2, <2>1, <2>2 DEF SameResults, TableState
  <2>4. Ids(tasks', nextTask')
    BY <2>1, <2>2, NewTask DEF Sound
  <2>5. refs' \in [Frames -> Nat] /\ \A f \in Frames : refs'[f] >= refs[f]
    <3>1. 2 \in Nat
      OBVIOUS
    <3>2. QED
      BY <2>1, <2>2, <3>1, AcquireCounts
  <2>6. \A u \in tasks' : (\E w \in tasks : w.id = u.id) \/ u.id = nextTask
    BY <2>1
  <2>7. nextTask' \in Nat /\ nextTask' >= nextTask
    BY <2>1, <2>2
  <2>8. QED
    BY <2>3, <2>4, <2>5, <2>6, <2>7, SoundKept
<1>3. QED
  BY <1>1, <1>2

\* A task ends: its result may be shown, and the frames that are released are shown
\* no longer.
LEMMA EndSound ==
    ASSUME Typed(table, tasks, refs, nextTask), Sound(table, tasks, refs, nextTask),
           NEW t \in tasks, NEW rf, rf \subseteq {t.id}, NEW gone, DataFrame \notin gone,
           NEW tb2, SummaryFits(tb2),
           tb2 # Nothing =>
               /\ table # Nothing
               /\ ShownFrames(tb2) \subseteq (ShownFrames(table) \cup rf) \ gone
               /\ FrameOf(tb2.filterTable) \cap FrameOf(tb2.orderingTable) = {}
               /\ FrameOf(tb2.filterTable) \cap FrameOf(tb2.aggregate) = {}
               /\ FrameOf(tb2.orderingTable) \cap FrameOf(tb2.aggregate) = {}
    PROVE  Sound(tb2, tasks \ {t}, Release(Acquire(refs, rf, 1), gone), nextTask)
<1> DEFINE acquired == Acquire(refs, rf, 1)
           released == Release(acquired, gone)
<1>1. /\ acquired \in [Frames -> Nat]
      /\ \A f \in Frames : acquired[f] >= refs[f]
      /\ \A f \in Frames \cap rf : acquired[f] >= 1
      /\ \A f \in Frames \ gone : released[f] = acquired[f]
  BY AcquireCounts, ReleaseCounts DEF Typed
<1>2. refs \in [Frames -> Nat] /\ nextTask \in Nat /\ t \in SchedulerTask
      /\ tasks \subseteq SchedulerTask
  BY DEF Typed
<1>3. Ids(tasks \ {t}, nextTask)
  BY DEF Sound, Ids
<1> HIDE DEF acquired, released
<1>4. ASSUME tb2 # Nothing PROVE Alive(tb2, tasks \ {t}, released, nextTask)
  <2>1. table \in TableState /\ table # Nothing
    BY <1>4 DEF Typed, Slot
  <2>2. DataFrame \in Frames /\ ShownFrames(table) \subseteq Frames
    BY <2>1, FramesAreFrames, BoundsAreNumbers DEF DataFrame, Frames
  <2>3. released[DataFrame] > 0
    <3>1. refs[DataFrame] > 0
      BY <2>1 DEF Sound, Alive
    <3>2. refs[DataFrame] \in Nat /\ acquired[DataFrame] \in Nat
      BY <1>1, <1>2, <2>2
    <3>3. QED
      BY <1>1, <2>2, <3>1, <3>2
  <2>4. ASSUME NEW f \in ShownFrames(tb2)
        PROVE  released[f] > 0 /\ f # DataFrame /\ f < nextTask /\ \A u \in tasks \ {t} : u.id # f
    <3>1. f \notin gone /\ (f \in ShownFrames(table) \/ f \in rf)
      BY <1>4
    <3>2. CASE f \in ShownFrames(table)
      <4>1. refs[f] > 0 /\ f # DataFrame /\ f < nextTask /\ \A u \in tasks : u.id # f
        BY <2>1, <3>2 DEF Sound, Alive
      <4>2. f \in Frames /\ refs[f] \in Nat /\ acquired[f] \in Nat
        BY <1>1, <1>2, <2>2, <3>2
      <4>3. released[f] > 0
        BY <1>1, <3>1, <4>1, <4>2
      <4>4. QED
        BY <4>1, <4>3
    <3>3. CASE f \in rf
      <4>1. f = t.id
        BY <3>3
      <4>2. t.id \in Frames /\ t.id # DataFrame
        BY <1>2 DEF SchedulerTask
      <4>3. t.id < nextTask /\ \A u \in tasks \ {t} : u.id # t.id
        BY DEF Sound, Ids
      <4>4. acquired[f] >= 1 /\ acquired[f] \in Nat /\ released[f] = acquired[f]
        BY <1>1, <3>1, <3>3, <4>1, <4>2
      <4>5. QED
        BY <4>1, <4>2, <4>3, <4>4
    <3>4. QED
      BY <3>1, <3>2, <3>3
  <2>5. QED
    BY <1>4, <2>3, <2>4 DEF Alive
<1>5. QED
  BY <1>3, <1>4 DEF Sound, Alive, acquired, released

\* The user and the effects.
LEMMA EffectSound ==
    ASSUME TypeOK, Sound(table, tasks, refs, nextTask),
           \/ \E f \in Selections : Select(f)
           \/ \E o \in Orders : Sort(o)
           \/ ClearOrdering \/ DeleteComputation \/ Render \/ OrderEffect
           \/ \E v \in Views : FilterEffect(v) \/ SummaryEffect(v)
    PROVE  Sound(table', tasks', refs', nextTask')
<1>0. /\ Typed(table, tasks, refs, nextTask)
      /\ seen.table \in Slot(TableState) /\ (due # {} => seen.table # Nothing)
      /\ (table # Nothing => table \in TableState)
      /\ refs \in [Frames -> Nat]
  BY TypeParts DEF Typed, Slot
<1>1. CASE UNCHANGED <<table, tasks, nextTask, refs>>
  BY <1>1 DEF Sound, Ids, Alive, SummaryFits
<1>2. CASE \E f \in Selections : Select(f)
  <2>1. /\ table # Nothing /\ UNCHANGED <<tasks, nextTask, refs>>
        /\ \E f \in Selections : table' = [table EXCEPT !.selection = f]
    BY <1>2 DEF Select
  <2>2. table'.filterTable = table.filterTable /\ table'.orderingTable = table.orderingTable
        /\ table'.aggregate = table.aggregate /\ table'.outdated = table.outdated
    BY <1>0, <2>1 DEF TableState
  <2>3. QED
    BY <2>1, <2>2 DEF Sound, Alive, SummaryFits, ShownFrames
<1>3. CASE \/ \E version, of, by : SchedulesOrdering(version, of, by)
           \/ \E of : SchedulesAggregate(of)
  BY <1>0, <1>3, OthersScheduledSound
<1>4. CASE \E o \in Orders : Sort(o)
  BY <1>3, <1>4 DEF Sort
<1>5. CASE ClearOrdering
  <2>1. /\ table \in TableState /\ table # Nothing /\ UNCHANGED <<tasks, nextTask>>
        /\ refs' = Release(refs, FrameOf(table.orderingTable))
        /\ \E slot : table' = [table EXCEPT !.orderedBy = Unordered, !.orderingTable = Nothing,
                                              !.ordering = slot]
    BY <1>0, <1>5 DEF ClearOrdering
  <2>2. table'.filterTable = table.filterTable /\ table'.orderingTable = Nothing
        /\ table'.aggregate = table.aggregate /\ table'.outdated = table.outdated
    BY <2>1 DEF TableState
  <2>3. \A f \in Frames \ FrameOf(table.orderingTable) : refs'[f] = refs[f]
    BY <1>0, <2>1, ReleaseCounts
  <2>4. DataFrame \in Frames /\ ShownFrames(table) \subseteq Frames
    BY <2>1, FramesAreFrames, BoundsAreNumbers DEF DataFrame, Frames
  <2>5. DataFrame \notin FrameOf(table.orderingTable)
    BY <2>1 DEF Sound, Alive, ShownFrames
  <2>6. ShownFrames(table') = ShownFrames(table) \ FrameOf(table.orderingTable)
    <3>1. FrameOf(table'.orderingTable) = {}
      BY <2>2 DEF FrameOf
    <3>2. FrameOf(table.filterTable) \cap FrameOf(table.orderingTable) = {}
          /\ FrameOf(table.orderingTable) \cap FrameOf(table.aggregate) = {}
      BY <2>1 DEF Sound, Alive
    <3>3. QED
      BY <2>2, <3>1, <3>2 DEF ShownFrames
  <2>7. Alive(table', tasks', refs', nextTask')
    <3>1. FrameOf(table'.orderingTable) = {}
      BY <2>2 DEF FrameOf
    <3>2. refs'[DataFrame] > 0
      BY <2>1, <2>3, <2>4, <2>5 DEF Sound, Alive
    <3>3. \A f \in ShownFrames(table') :
              refs'[f] > 0 /\ f # DataFrame /\ f < nextTask' /\ \A u \in tasks' : u.id # f
      BY <2>1, <2>3, <2>4, <2>6 DEF Sound, Alive
    <3>4. FrameOf(table.filterTable) \cap FrameOf(table.aggregate) = {}
      BY <2>1 DEF Sound, Alive
    <3>5. QED
      BY <2>2, <3>1, <3>2, <3>3, <3>4 DEF Alive
  <2>8. QED
    BY <2>1, <2>2, <2>7 DEF Sound, SummaryFits, Ids
<1>6. CASE DeleteComputation
  BY <1>6 DEF DeleteComputation, Sound, Ids, Alive, SummaryFits
<1>7. CASE Render
  BY <1>1, <1>7 DEF Render
<1>8. CASE OrderEffect
  BY <1>1, <1>3, <1>8 DEF OrderEffect
<1>9. CASE \E v \in Views : SummaryEffect(v)
  BY <1>1, <1>3, <1>9 DEF SummaryEffect
<1>10. CASE \E v \in Views : FilterEffect(v)
  <2>1. PICK v \in Views : FilterEffect(v)
    BY <1>10
  <2>2. seen.table.selection \in Selections
    BY <1>0, <2>1 DEF FilterEffect, Slot, TableState
  <2>3. \/ SchedulesFilter(table, refs, tasks, seen.table.selection)
        \/ UNCHANGED <<table, tasks, nextTask, refs>>
    BY <2>1 DEF FilterEffect
  <2>4. QED
    BY <1>0, <1>1, <2>2, <2>3, FilterScheduledSound
<1>11. QED
  BY <1>2, <1>4, <1>5, <1>6, <1>7, <1>8, <1>9, <1>10

\* A task that moves to another phase keeps its id.
LEMMA PhaseSound ==
    ASSUME TypeOK, Sound(table, tasks, refs, nextTask), NEW t \in tasks, NEW status \in Status,
           NEW phase \in {"scheduled", "running", "failed"}
    PROVE  Sound(Updated(table, t, status), (tasks \ {t}) \cup {[t EXCEPT !.phase = phase]}, refs, nextTask)
<1> DEFINE after == Updated(table, t, status)
           moved == [t EXCEPT !.phase = phase]
           others == (tasks \ {t}) \cup {moved}
<1>1. /\ Typed(table, tasks, refs, nextTask) /\ t \in SchedulerTask
      /\ nextTask \in Nat /\ refs \in [Frames -> Nat]
  BY TypeParts DEF Typed
<1>2. moved.id = t.id
  BY <1>1 DEF SchedulerTask
<1>3. SameResults(table, after)
  <2>1. CASE table = Nothing
    BY <2>1 DEF SameResults, Updated
  <2>2. CASE table # Nothing
    <3>1. table \in TableState
      BY <1>1, <2>2 DEF Typed, Slot
    <3>2. \/ after = table
          \/ \E slot : after = [table EXCEPT !.filtering = slot]
          \/ \E slot : after = [table EXCEPT !.ordering = slot]
          \/ \E slot : after = [table EXCEPT !.aggregating = slot]
      <4>1. CASE t.kind = "filter"
        BY <2>2, <4>1 DEF Updated
      <4>2. CASE t.kind = "order"
        BY <2>2, <4>2 DEF Updated
      <4>3. CASE t.kind = "aggregate"
        BY <2>2, <4>3 DEF Updated
      <4>4. QED
        BY <1>1, <4>1, <4>2, <4>3 DEF SchedulerTask
    <3> HIDE DEF after
    <3>3. QED
      BY <2>2, <3>1, <3>2 DEF SameResults, TableState
  <2>3. QED
    BY <2>1, <2>2
<1> HIDE DEF after, moved
<1>4. Ids(others, nextTask)
  BY <1>2 DEF Sound, Ids
<1>5. \A u \in others : (\E w \in tasks : w.id = u.id) \/ u.id = nextTask
  BY <1>2
<1>6. (\A f \in Frames : refs[f] >= refs[f]) /\ nextTask >= nextTask
  BY <1>1
<1> HIDE DEF others
<1>7. Sound(after, others, refs, nextTask)
  BY <1>1, <1>3, <1>4, <1>5, <1>6, SoundKept
<1>8. QED
  BY <1>7 DEF after, others, moved

\* The scheduler.
LEMMA TaskSound ==
    ASSUME TypeOK, Sound(table, tasks, refs, nextTask), NEW t \in tasks,
           \/ Launch(t) \/ FilterCompletes(t) \/ OrderingCompletes(t)
           \/ AggregateCompletes(t) \/ TaskFails(t)
    PROVE  Sound(table', tasks', refs', nextTask')
<1>0. /\ Typed(table, tasks, refs, nextTask)
      /\ queue \in Requests
      /\ (table # Nothing => table \in TableState)
      /\ table \in Slot(TableState)
      /\ t \in SchedulerTask /\ tasks \subseteq SchedulerTask
      /\ refs \in [Frames -> Nat] /\ nextTask \in Nat \ {0}
      /\ (t.kind = "aggregate" => t.of \in FilterResult)
      /\ \A u \in tasks : u.kind = "aggregate" => u.of \in FilterResult
  BY TypeParts DEF Typed, Slot
<1>1. \A rs : \A fs : Release(Acquire(refs, rs, 1), fs) \in [Frames -> Nat]
  BY <1>0, AcquireCounts, ReleaseCounts
<1>2. table # Nothing =>
          /\ \A f \in ShownFrames(table) : f # DataFrame /\ f # t.id
          /\ FrameOf(table.filterTable) \cap FrameOf(table.orderingTable) = {}
          /\ FrameOf(table.filterTable) \cap FrameOf(table.aggregate) = {}
          /\ FrameOf(table.orderingTable) \cap FrameOf(table.aggregate) = {}
  BY DEF Sound, Alive
<1>3. t.id # DataFrame /\ ResultFrame(t) \subseteq {t.id}
  BY <1>0 DEF SchedulerTask, ResultFrame
<1>4. Sound(table, tasks \ {t}, Release(Acquire(refs, ResultFrame(t), 1), ResultFrame(t)), nextTask)
  <2>1. DataFrame \notin ResultFrame(t)
    BY <1>3
  <2>2. table # Nothing =>
            ShownFrames(table) \subseteq (ShownFrames(table) \cup ResultFrame(t)) \ ResultFrame(t)
    BY <1>2, <1>3
  <2>3. SummaryFits(table)
    BY DEF Sound
  <2>4. QED
    BY <1>0, <1>2, <1>3, <2>1, <2>2, <2>3, EndSound
<1>5. CASE Launch(t)
  BY <1>5, PhaseSound DEF Launch, Status
<1>6. CASE FilterCompletes(t)
  <2> DEFINE acquired == Acquire(refs, ResultFrame(t), 1)
  <2>1. CASE AcceptsFilter(t)
    <3>1. Settles(Filtered(t), Release(acquired, Replaced(t)), tasks \ {t})
      BY <1>6, <2>1 DEF FilterCompletes
    <3>2. table \in TableState /\ table # Nothing /\ t.version = table.version
      BY <1>0, <2>1 DEF AcceptsFilter
    <3>3. Typed(Filtered(t), tasks \ {t}, Release(acquired, Replaced(t)), nextTask)
      BY <1>0, <1>1, <2>1, ResultTypes DEF Typed, Slot
    <3> DEFINE result == [version |-> t.version, filters |-> t.filters, frame |-> t.id]
    <3>4. /\ Filtered(t).filterTable = IF t.filters = NoFilter THEN Nothing ELSE result
          /\ Filtered(t).orderingTable = Nothing
          /\ Filtered(t).aggregate = IF t.filters = NoFilter THEN Nothing ELSE table.aggregate
          /\ Filtered(t).outdated = (/\ ~(t.filters = NoFilter)
                                    /\ ~(table.aggregate # Nothing /\ table.aggregate.version = t.version))
      BY <3>2 DEF Filtered, TableState
    <3>5. result.frame = t.id /\ result.version = t.version
      OBVIOUS
    <3>6. SummaryFits(Filtered(t))
      BY <3>4, <3>5 DEF SummaryFits
    <3>7. /\ FrameOf(Filtered(t).filterTable) \subseteq ResultFrame(t)
          /\ FrameOf(Filtered(t).orderingTable) = {}
          /\ FrameOf(Filtered(t).aggregate) \subseteq FrameOf(table.aggregate) \ Replaced(t)
      <4>1. t.kind = "filter"
        BY <1>6 DEF FilterCompletes, Running
      <4>2. FrameOf(Nothing) = {}
        BY DEF FrameOf
      <4>3. FrameOf(result) \subseteq {t.id}
        BY <3>5 DEF FrameOf
      <4> HIDE DEF result
      <4>4. CASE t.filters = NoFilter
        BY <3>4, <4>2, <4>4
      <4>5. CASE t.filters # NoFilter
        <5>1. Replaced(t) = FrameOf(table.filterTable) \cup FrameOf(table.orderingTable)
          BY <4>5 DEF Replaced
        <5>2. ResultFrame(t) = {t.id}
          BY <4>1, <4>5 DEF ResultFrame
        <5>3. QED
          BY <1>2, <3>2, <3>4, <4>2, <4>3, <4>5, <5>1, <5>2
      <4>6. QED
        BY <4>4, <4>5
    <3>8. Replaced(t) \subseteq ShownFrames(table)
      BY DEF Replaced, ShownFrames
    <3>9. FrameOf(table.aggregate) \subseteq ShownFrames(table)
      BY DEF ShownFrames
    <3>10. ShownFrames(Filtered(t)) \subseteq (ShownFrames(table) \cup ResultFrame(t)) \ Replaced(t)
      BY <1>2, <1>3, <3>2, <3>7, <3>8, <3>9 DEF ShownFrames
    <3>11. DataFrame \notin Replaced(t)
      BY <1>2, <3>2, <3>8
    <3>12. /\ FrameOf(Filtered(t).filterTable) \cap FrameOf(Filtered(t).orderingTable) = {}
           /\ FrameOf(Filtered(t).filterTable) \cap FrameOf(Filtered(t).aggregate) = {}
           /\ FrameOf(Filtered(t).orderingTable) \cap FrameOf(Filtered(t).aggregate) = {}
      BY <1>2, <1>3, <3>2, <3>7, <3>9
    <3>13. Sound(Filtered(t), tasks \ {t}, Release(acquired, Replaced(t)), nextTask)
      BY <1>0, <1>3, <3>2, <3>6, <3>10, <3>11, <3>12, EndSound
    <3>14. QED
      BY <1>0, <3>1, <3>3, <3>13, SettlesSound
  <2>2. CASE ~AcceptsFilter(t)
    <3>1. Settles(table, Release(acquired, ResultFrame(t)), tasks \ {t})
      BY <1>6, <2>2 DEF FilterCompletes
    <3>2. Typed(table, tasks \ {t}, Release(acquired, ResultFrame(t)), nextTask)
      BY <1>0, <1>1 DEF Typed
    <3>3. QED
      BY <1>0, <1>4, <3>1, <3>2, SettlesSound
  <2>3. QED
    BY <2>1, <2>2
<1>7. CASE OrderingCompletes(t)
  <2>1. CASE AcceptsOrdering(t)
    <3>1. /\ tasks' = tasks \ {t} /\ nextTask' = nextTask /\ table' = Ordered(t)
          /\ refs' = Release(Acquire(refs, ResultFrame(t), 1), FrameOf(table.orderingTable))
      BY <1>7, <2>1 DEF OrderingCompletes
    <3>2. table \in TableState /\ table # Nothing
      BY <1>0, <2>1 DEF AcceptsOrdering
    <3> DEFINE result == [version |-> t.version, by |-> t.by, of |-> t.of, frame |-> t.id]
    <3>3. /\ table'.filterTable = table.filterTable /\ table'.aggregate = table.aggregate
          /\ table'.orderingTable = result /\ table'.outdated = table.outdated
      BY <3>1, <3>2 DEF Ordered, TableState
    <3>4. FrameOf(result) \subseteq {t.id} /\ ResultFrame(t) = {t.id}
      BY <1>7 DEF FrameOf, ResultFrame, OrderingCompletes, Running
    <3> HIDE DEF result
    <3>5. SummaryFits(table')
      BY <3>2, <3>3 DEF Sound, SummaryFits
    <3>6. /\ ShownFrames(table') \subseteq
                 (ShownFrames(table) \cup ResultFrame(t)) \ FrameOf(table.orderingTable)
          /\ DataFrame \notin FrameOf(table.orderingTable)
      BY <1>2, <3>2, <3>3, <3>4 DEF ShownFrames
    <3>7. /\ FrameOf(table'.filterTable) \cap FrameOf(table'.orderingTable) = {}
          /\ FrameOf(table'.filterTable) \cap FrameOf(table'.aggregate) = {}
          /\ FrameOf(table'.orderingTable) \cap FrameOf(table'.aggregate) = {}
      BY <1>2, <3>2, <3>3, <3>4 DEF ShownFrames
    <3>8. Sound(table', tasks \ {t},
                Release(Acquire(refs, ResultFrame(t), 1), FrameOf(table.orderingTable)), nextTask)
      BY <1>0, <1>3, <3>2, <3>5, <3>6, <3>7, EndSound
    <3>9. QED
      BY <3>1, <3>8
  <2>2. CASE ~AcceptsOrdering(t)
    BY <1>4, <1>7, <2>2 DEF OrderingCompletes
  <2>3. QED
    BY <2>1, <2>2
<1>8. CASE AggregateCompletes(t)
  <2>1. CASE AcceptsAggregate(t)
    <3>1. /\ tasks' = tasks \ {t} /\ nextTask' = nextTask /\ table' = Aggregated(t)
          /\ refs' = Release(Acquire(refs, ResultFrame(t), 1), FrameOf(table.aggregate))
      BY <1>8, <2>1 DEF AggregateCompletes
    <3>2. table \in TableState /\ table # Nothing /\ table.filterTable.version = t.of.version
      BY <1>0, <2>1 DEF AcceptsAggregate
    <3> DEFINE result == [version |-> t.of.version, frame |-> t.id]
    <3>3. /\ table'.filterTable = table.filterTable /\ table'.aggregate = result
          /\ table'.orderingTable = table.orderingTable
      BY <3>1, <3>2 DEF Aggregated, TableState
    <3>4. /\ FrameOf(result) \subseteq {t.id} /\ ResultFrame(t) = {t.id}
          /\ result.version = t.of.version
      BY <1>8 DEF FrameOf, ResultFrame, AggregateCompletes, Running
    <3> HIDE DEF result
    <3>5. SummaryFits(table')
      BY <3>2, <3>3, <3>4 DEF SummaryFits
    <3>6. /\ ShownFrames(table') \subseteq
                 (ShownFrames(table) \cup ResultFrame(t)) \ FrameOf(table.aggregate)
          /\ DataFrame \notin FrameOf(table.aggregate)
      BY <1>2, <3>2, <3>3, <3>4 DEF ShownFrames
    <3>7. /\ FrameOf(table'.filterTable) \cap FrameOf(table'.orderingTable) = {}
          /\ FrameOf(table'.filterTable) \cap FrameOf(table'.aggregate) = {}
          /\ FrameOf(table'.orderingTable) \cap FrameOf(table'.aggregate) = {}
      BY <1>2, <3>2, <3>3, <3>4 DEF ShownFrames
    <3>8. Sound(table', tasks \ {t},
                Release(Acquire(refs, ResultFrame(t), 1), FrameOf(table.aggregate)), nextTask)
      BY <1>0, <1>3, <3>2, <3>5, <3>6, <3>7, EndSound
    <3>9. QED
      BY <3>1, <3>8
  <2>2. CASE ~AcceptsAggregate(t)
    BY <1>4, <1>8, <2>2 DEF AggregateCompletes
  <2>3. QED
    BY <2>1, <2>2
<1>9. CASE TaskFails(t)
  <2> DEFINE others == (tasks \ {t}) \cup {[t EXCEPT !.phase = "failed"]}
             after == Updated(table, t, "failed")
  <2>1. Sound(after, others, refs, nextTask)
    BY PhaseSound DEF Status
  <2>2. Typed(after, others, refs, nextTask)
    BY <1>0, UpdatedTypes, PhaseTypes DEF Typed, Status
  <2>3. CASE t.kind = "filter"
    <3>1. Settles(after, refs, others)
      BY <1>9, <2>3 DEF TaskFails
    <3> HIDE DEF after, others
    <3>2. QED
      BY <1>0, <2>1, <2>2, <3>1, SettlesSound
  <2>4. CASE t.kind # "filter"
    BY <1>9, <2>1, <2>4 DEF TaskFails
  <2>5. QED
    BY <2>3, <2>4
<1>10. QED
  BY <1>5, <1>6, <1>7, <1>8, <1>9

\* The invariant behind the next two theorems.
LEMMA ResultsAreSound == Spec => []Sound(table, tasks, refs, nextTask)
<1>1. Init => Sound(table, tasks, refs, nextTask)
  <2> SUFFICES ASSUME Init PROVE Sound(table, tasks, refs, nextTask)
    OBVIOUS
  <2>1. table = Analysed /\ tasks = {}
    BY DEF Init
  <2>2. refs[DataFrame] > 0
    BY BoundsAreNumbers DEF Init, Frames, DataFrame
  <2>3. /\ table.filterTable = Nothing /\ table.orderingTable = Nothing
        /\ table.aggregate = Nothing
    BY <2>1 DEF Analysed
  <2>4. QED
    BY <2>1, <2>2, <2>3 DEF Sound, Ids, Alive, SummaryFits, ShownFrames, FrameOf
<1>2. TypeOK /\ Sound(table, tasks, refs, nextTask) /\ [Next]_vars
          => Sound(table', tasks', refs', nextTask')
  <2> SUFFICES ASSUME TypeOK, Sound(table, tasks, refs, nextTask), [Next]_vars
               PROVE  Sound(table', tasks', refs', nextTask')
    OBVIOUS
  <2>1. CASE UNCHANGED vars
    BY <2>1 DEF vars
  <2>2. CASE Next
    BY <2>2, EffectSound, TaskSound DEF Next, Progress
  <2>3. QED
    BY <2>1, <2>2
<1>3. Sound(table', tasks', refs', nextTask') => Sound(table, tasks, refs, nextTask)'
  OBVIOUS
<1>4. QED
  BY <1>1, <1>2, <1>3, TypeCorrect, PTL DEF Spec

\* A summary that is not outdated is that of the shown filter: the reducer checks a
\* summary against the filter table, and outdates it when another filter is accepted.
THEOREM SummaryFitsFilter == Spec => []SummaryIsOfFilter
<1>1. Sound(table, tasks, refs, nextTask) => SummaryIsOfFilter
  BY DEF Sound, SummaryFits, SummaryIsOfFilter
<1>2. QED
  BY <1>1, ResultsAreSound, PTL

\* The frames of what is shown are alive: results own distinct frames, which are
\* released when they are replaced, and a rejected result releases only its own.
THEOREM FramesStayAlive == Spec => []ShownFramesAreAlive
<1>1. Sound(table, tasks, refs, nextTask) => ShownFramesAreAlive
  BY DEF Sound, Alive, ShownFrames, ShownFramesAreAlive
<1>2. QED
  BY <1>1, ResultsAreSound, PTL
=============================================================================
