---------------------------- MODULE CrossFilters ----------------------------
(* Filtering, sorting and summarising the table of a query result: the state  *)
(* of one analysed table in the computation reducer, the tasks its scheduler  *)
(* runs, the reference counts of the data frames, and the effects of the      *)
(* views (useCrossFilters, DataTable, HeaderPlotsCell) that schedule the      *)
(* tasks.  An effect reads the state of the last render; the actions it       *)
(* dispatches reach a state that may have moved on.  Tasks are asynchronous:  *)
(* they end in any order, and may fail.                                       *)
(*                                                                            *)
(* Abstractions: the analysis of the table is over (the data version stands   *)
(* still), one column has a plot, a selection of filters and a sort order are *)
(* opaque values, and the rows of a result are the task that computed it.     *)
EXTENDS Naturals

CONSTANTS
    Selections,    \* the cross-filter selections a user may make
    NoFilter,      \* the empty selection
    Orders,        \* the sort orders a user may ask for
    Unordered,     \* no sort order
    Views,         \* the mounted consumers of the shared selection
    Nothing,       \* stands for null
    MaxDisturbances, \* bound: what the user does, and tasks that fail
    MaxTasks       \* bound: tasks that are ever scheduled

ASSUME EmptySelection == NoFilter \in Selections
ASSUME UnorderedIsNoOrder == Unordered \notin Orders
ASSUME BoundsAreNumbers == MaxDisturbances \in Nat /\ MaxTasks \in Nat

VARIABLES
    table,    \* the state of the table, Nothing once it is deleted
    tasks,    \* the scheduler tasks
    nextTask, \* the id of the next scheduler task
    refs,     \* data frame -> reference count; the frame of a result has its task's id
    seen,     \* the table of the last render, and the tasks the scheduler saw in it
    due,      \* the effects of the last render that did not run yet
    queue,    \* the filter task queue of the table
    claims,   \* the filter versions for which a column summary is being computed
    used      \* disturbances so far

vars == <<table, tasks, nextTask, refs, seen, due, queue, claims, used>>

DataFrame == 0

Frames == 0 .. MaxTasks

Slot(values) == values \cup {Nothing}

AnyOrder == Orders \cup {Unordered}

FilterResult == [version : Nat, filters : Selections, frame : Frames]

OrderingResult == [version : Nat, by : AnyOrder, of : Slot(FilterResult), frame : Frames]

Summary == [version : Nat, frame : Frames]

Status == {"running", "succeeded", "failed"}

\* a request of the filter queue: its schedule key
Request == [version : Nat, filters : Selections]

\* the table: its version, the selection, a slot per kind of task (filtering, ordering,
\* aggregating), and the results that are shown
TableState ==
    [version : Nat, selection : Selections,
     filtering : Slot([version : Nat, filters : Selections, status : Status]),
     ordering : Slot([version : Nat, of : Slot(FilterResult), by : AnyOrder, status : Status]),
     aggregating : Slot([of : FilterResult, status : Status]),
     filterTable : Slot(FilterResult), orderingTable : Slot(OrderingResult),
     orderedBy : AnyOrder, aggregate : Slot(Summary), outdated : BOOLEAN]

SchedulerTask ==
    [id : Frames \ {DataFrame}, kind : {"filter", "order", "aggregate"}, version : Nat,
     filters : Selections, by : AnyOrder, of : Slot(FilterResult),
     phase : {"scheduled", "running", "failed"}]

ASSUME NothingIsNoRequest == Nothing \notin Request

FrameOf(result) == IF result = Nothing THEN {} ELSE {result.frame}

-----------------------------------------------------------------------------
\* DataFrameRegistry.

Acquire(counts, frames, times) ==
    [f \in Frames |-> IF f \in frames THEN counts[f] + times ELSE counts[f]]

\* a count that falls to zero drops the frame; releasing an unknown frame only warns
Release(counts, frames) ==
    [f \in Frames |-> IF f \in frames /\ counts[f] > 0 THEN counts[f] - 1 ELSE counts[f]]

-----------------------------------------------------------------------------
\* The reducer.

\* mutant: the version counts the results, not the requests
SchedulesFilterUnversioned(before, counts, others, filters) ==
    IF before = Nothing
    THEN /\ table' = Nothing /\ tasks' = others /\ refs' = counts
         /\ UNCHANGED nextTask
    ELSE /\ nextTask <= MaxTasks
         /\ table' = [before EXCEPT
                !.filtering = [version |-> before.version, filters |-> filters, status |-> "running"]]
         /\ tasks' = others \cup {[id |-> nextTask, kind |-> "filter", version |-> before.version,
                                   filters |-> filters, by |-> Unordered, of |-> Nothing,
                                   phase |-> "scheduled"]}
         /\ refs' = Acquire(counts, {DataFrame}, 2)
         /\ nextTask' = nextTask + 1

\* SCHEDULE_TASK of a filter: the version it will have is allocated here, so that
\* every filter has a version of its own; a table that is gone schedules nothing
SchedulesFilter(before, counts, others, filters) ==
    IF before = Nothing
    THEN /\ table' = Nothing /\ tasks' = others /\ refs' = counts
         /\ UNCHANGED nextTask
    ELSE LET version == before.version + 1 IN
         /\ nextTask <= MaxTasks
         /\ table' = [before EXCEPT !.version = version,
                         !.filtering = [version |-> version, filters |-> filters, status |-> "running"]]
         /\ tasks' = others \cup {[id |-> nextTask, kind |-> "filter", version |-> version,
                                   filters |-> filters, by |-> Unordered, of |-> Nothing,
                                   phase |-> "scheduled"]}
         /\ refs' = Acquire(counts, {DataFrame}, 2)
         /\ nextTask' = nextTask + 1

\* SCHEDULE_TASK of an ordering: the result will carry the version the view saw
SchedulesOrdering(version, of, by) ==
    IF table = Nothing
    THEN UNCHANGED <<table, tasks, nextTask, refs>>
    ELSE /\ nextTask <= MaxTasks
         /\ table' = [table EXCEPT !.ordering = [version |-> table.version, of |-> of, by |-> by,
                                                 status |-> "running"]]
         /\ tasks' = tasks \cup {[id |-> nextTask, kind |-> "order", version |-> version,
                                  filters |-> NoFilter, by |-> by, of |-> of,
                                  phase |-> "scheduled"]}
         /\ refs' = Acquire(refs, {DataFrame} \cup FrameOf(of), 2)
         /\ nextTask' = nextTask + 1

\* SCHEDULE_TASK of a column summary over a filter table
SchedulesAggregate(of) ==
    IF table = Nothing
    THEN UNCHANGED <<table, tasks, nextTask, refs>>
    ELSE /\ nextTask <= MaxTasks
         /\ table' = [table EXCEPT !.aggregating = [of |-> of, status |-> "running"]]
         /\ tasks' = tasks \cup {[id |-> nextTask, kind |-> "aggregate", version |-> of.version,
                                  filters |-> NoFilter, by |-> Unordered, of |-> of,
                                  phase |-> "scheduled"]}
         /\ refs' = Acquire(refs, {DataFrame} \cup FrameOf(of), 2)
         /\ nextTask' = nextTask + 1

\* UPDATE_SCHEDULER_TASK: the table's slot becomes that of the task, whatever was
\* scheduled since, except that an ordering leaves the slot of another order alone
Updated(before, t, status) ==
    IF before = Nothing THEN Nothing
    ELSE CASE t.kind = "filter" ->
              [before EXCEPT !.filtering = [version |-> before.version, filters |-> t.filters,
                                            status |-> status]]
           [] t.kind = "order" ->
              IF before.ordering # Nothing /\ before.ordering.by # t.by THEN before
              ELSE [before EXCEPT !.ordering = [version |-> before.version, of |-> t.of, by |-> t.by,
                                                status |-> status]]
           [] t.kind = "aggregate" ->
              [before EXCEPT !.aggregating = [of |-> t.of, status |-> status]]

\* TABLE_FILTERING_SUCCEEDED: only the version of the latest filter is accepted
AcceptsFilter(t) == table # Nothing /\ t.version = table.version

\* mutant: the ordering of the earlier rows stays
FilteredKeepsOrdering(t) ==
    LET cleared == t.filters = NoFilter IN
    [table EXCEPT
        !.filtering = IF @ = Nothing THEN Nothing ELSE [@ EXCEPT !.status = "succeeded"],
        !.filterTable = IF cleared THEN Nothing
                        ELSE [version |-> t.version, filters |-> t.filters, frame |-> t.id],
        !.aggregate = IF cleared THEN Nothing ELSE @,
        !.outdated = ~cleared /\ ~(table.aggregate # Nothing /\ table.aggregate.version = t.version)]

\* the new filter ends the ordering, and outdates the summary unless it is its own
Filtered(t) ==
    LET cleared == t.filters = NoFilter IN
    [table EXCEPT
        !.filtering = IF @ = Nothing THEN Nothing ELSE [@ EXCEPT !.status = "succeeded"],
        !.filterTable = IF cleared THEN Nothing
                        ELSE [version |-> t.version, filters |-> t.filters, frame |-> t.id],
        !.orderingTable = Nothing,
        !.aggregate = IF cleared THEN Nothing ELSE @,
        !.outdated = /\ ~cleared
                     /\ ~(table.aggregate # Nothing /\ table.aggregate.version = t.version)]

\* what an accepted filter releases: the results it replaces
Replaced(t) ==
    FrameOf(table.filterTable) \cup FrameOf(table.orderingTable)
        \cup IF t.filters = NoFilter THEN FrameOf(table.aggregate) ELSE {}

\* the frame of a result is acquired first; a rejected one is dropped again
ResultFrame(t) == IF t.kind = "filter" /\ t.filters = NoFilter THEN {} ELSE {t.id}

\* TABLE_ORDERING_SUCCEDED: for the current version, and the order still asked for
AcceptsOrdering(t) ==
    /\ table # Nothing
    /\ t.version = table.version
    /\ table.ordering # Nothing /\ table.ordering.by = t.by

Ordered(t) ==
    [table EXCEPT !.orderingTable = [version |-> t.version, by |-> t.by, of |-> t.of, frame |-> t.id],
                  !.orderedBy = t.by,
                  !.ordering.status = "succeeded"]

\* mutant: a summary is accepted when its task is known
AcceptsAggregateOfTask(t) ==
    /\ table # Nothing
    /\ table.aggregating # Nothing /\ table.aggregating.of.version = t.of.version

\* FILTERED_COLUMN_AGGREGATION_SUCCEEDED: for the filter of the slot's task, and
\* for the filter table that is shown
AcceptsAggregate(t) ==
    /\ table # Nothing
    /\ table.aggregating # Nothing /\ table.aggregating.of.version = t.of.version
    /\ table.filterTable # Nothing /\ table.filterTable.version = t.of.version

Aggregated(t) ==
    [table EXCEPT !.aggregate = [version |-> t.of.version, frame |-> t.id],
                  !.outdated = FALSE,
                  !.aggregating.status = "succeeded"]

-----------------------------------------------------------------------------
\* The state of an analysed table, and the first render of its views.

Analysed ==
    [version |-> 0, selection |-> NoFilter, filtering |-> Nothing, ordering |-> Nothing,
     aggregating |-> Nothing, filterTable |-> Nothing, orderingTable |-> Nothing,
     orderedBy |-> Unordered, aggregate |-> Nothing, outdated |-> FALSE]

\* the data frame belongs to the table, and to the task that summarised the column
Init ==
    /\ table = Analysed
    /\ tasks = {}
    /\ nextTask = 1
    /\ refs = [f \in Frames |-> IF f = DataFrame THEN 3 ELSE 0]
    /\ seen = [table |-> Analysed, next |-> 1]
    /\ due = {}
    /\ queue = [active |-> Nothing, pending |-> Nothing]
    /\ claims = {}
    /\ used = 0

-----------------------------------------------------------------------------
\* The user.

\* a brush or a click on a plot: SET_CROSS_FILTERS
Select(selection) ==
    /\ seen.table # Nothing
    /\ used < MaxDisturbances
    /\ table # Nothing /\ table.selection # selection
    /\ table' = [table EXCEPT !.selection = selection]
    /\ used' = used + 1
    /\ UNCHANGED <<tasks, nextTask, refs, seen, due, queue, claims>>

\* a click on a column header sorts what the last render showed
Sort(by) ==
    /\ seen.table # Nothing
    /\ used < MaxDisturbances
    /\ SchedulesOrdering(seen.table.version, seen.table.filterTable, by)
    /\ used' = used + 1
    /\ UNCHANGED <<seen, due, queue, claims>>

\* CLEAR_TABLE_ORDERING: the slot keeps its task, without an order
ClearOrdering ==
    /\ seen.table # Nothing /\ table # Nothing
    /\ used < MaxDisturbances
    /\ table' = [table EXCEPT !.orderedBy = Unordered, !.orderingTable = Nothing,
                              !.ordering = IF @ = Nothing THEN Nothing ELSE [@ EXCEPT !.by = Unordered]]
    /\ refs' = Release(refs, FrameOf(table.orderingTable))
    /\ used' = used + 1
    /\ UNCHANGED <<tasks, nextTask, seen, due, queue, claims>>

\* DELETE_COMPUTATION, when a query replaces its earlier result: each slot
\* releases its frames once
DeleteComputation ==
    /\ table # Nothing
    /\ used < MaxDisturbances
    /\ used' = used + 1
    /\ table' = Nothing
    /\ LET results == Release(refs, {DataFrame} \cup FrameOf(table.filterTable)
                                        \cup FrameOf(table.orderingTable) \cup FrameOf(table.aggregate))
           filtering == IF table.filtering = Nothing THEN results ELSE Release(results, {DataFrame})
           ordering == IF table.ordering = Nothing THEN filtering
                       ELSE Release(filtering, {DataFrame} \cup FrameOf(table.ordering.of))
           summary == Release(ordering, {DataFrame})
       IN  refs' = IF table.aggregating = Nothing THEN summary
                   ELSE Release(summary, FrameOf(table.aggregating.of))
    /\ UNCHANGED <<tasks, nextTask, seen, due, queue, claims>>

-----------------------------------------------------------------------------
\* The views.

Waiting == {t \in tasks : t.phase = "scheduled" /\ t.id < seen.next}

FilterInputs(tb) == <<tb.version, tb.filterTable, tb.filtering, tb.selection>>

OrderInputs(tb) == <<tb.version, tb.filterTable, tb.orderingTable, tb.ordering, tb.orderedBy>>

SummaryInputs(tb) == <<tb.outdated, tb.aggregating, tb.filterTable>>

\* React runs all effects of a render before the next one; an effect is due when
\* one of its inputs changed
Render ==
    /\ due = {} /\ Waiting = {}
    /\ seen # [table |-> table, next |-> nextTask]
    /\ seen' = [table |-> table, next |-> nextTask]
    /\ LET old == seen.table IN
       due' = IF table = Nothing THEN {}
              ELSE (IF FilterInputs(old) # FilterInputs(table) THEN {"filter"} \X Views ELSE {})
                     \cup (IF OrderInputs(old) # OrderInputs(table) THEN {"order"} \X {"grid"} ELSE {})
                     \cup (IF SummaryInputs(old) # SummaryInputs(table) THEN {"summary"} \X Views ELSE {})
    /\ UNCHANGED <<table, tasks, nextTask, refs, queue, claims, used>>

\* the filtering effect of useCrossFilters
FilterIsUpToDate(tb) ==
    /\ tb.filterTable # Nothing /\ tb.filterTable.version = tb.version
    /\ tb.filtering # Nothing /\ tb.filtering.filters = tb.selection

FilterIsRunning(tb) ==
    /\ tb.filtering # Nothing /\ tb.filtering.status = "running"
    /\ tb.filtering.version = tb.version
    /\ tb.filtering.filters = tb.selection

NeedsFilter(tb) ==
    /\ ~FilterIsUpToDate(tb)
    /\ ~(tb.selection = NoFilter /\ tb.filterTable = Nothing)
    /\ ~FilterIsRunning(tb)

\* scheduleLatestFilter: one filter runs at a time, and of the requests that
\* arrive meanwhile only the newest is kept
FilterEffect(v) ==
    LET tb == seen.table
        key == [version |-> tb.version, filters |-> tb.selection]
    IN  /\ <<"filter", v>> \in due
        /\ due' = due \ {<<"filter", v>>}
        /\ CASE ~NeedsFilter(tb) -> UNCHANGED <<table, tasks, nextTask, refs, queue>>
             [] NeedsFilter(tb) /\ queue.active = Nothing ->
                   /\ queue' = [queue EXCEPT !.active = key]
                   /\ SchedulesFilter(table, refs, tasks, tb.selection)
             [] NeedsFilter(tb) /\ queue.active # Nothing ->
                   /\ queue' = [queue EXCEPT !.pending = IF queue.active = key THEN Nothing ELSE key]
                   /\ UNCHANGED <<table, tasks, nextTask, refs>>
        /\ UNCHANGED <<seen, claims, used>>

\* the ordering effect of the data table
ActiveOrder(tb) ==
    IF tb.ordering # Nothing /\ tb.ordering.by # Unordered THEN tb.ordering.by ELSE tb.orderedBy

OrderIsFor(tb, status) ==
    /\ tb.ordering # Nothing /\ tb.ordering.status = status
    /\ tb.ordering.version = tb.version
    /\ IF tb.filterTable = Nothing THEN tb.ordering.of = Nothing
       ELSE tb.ordering.of # Nothing /\ tb.ordering.of.version = tb.filterTable.version

OrderIsUpToDate(tb) ==
    /\ OrderIsFor(tb, "succeeded")
    /\ tb.orderingTable # Nothing /\ tb.orderingTable.by = ActiveOrder(tb)

OrderIsRunning(tb) == OrderIsFor(tb, "running") /\ tb.ordering.by = ActiveOrder(tb)

OrderEffect ==
    LET tb == seen.table IN
    /\ <<"order", "grid">> \in due
    /\ due' = due \ {<<"order", "grid">>}
    /\ IF ActiveOrder(tb) = Unordered \/ OrderIsUpToDate(tb) \/ OrderIsRunning(tb)
       THEN UNCHANGED <<table, tasks, nextTask, refs>>
       ELSE SchedulesOrdering(tb.version, tb.filterTable, ActiveOrder(tb))
    /\ UNCHANGED <<seen, queue, claims, used>>

\* the effect of a plot asks for the summary over the filter table that is shown,
\* once per filter: requestFilteredColumnAggregation
SummaryIsRunning(tb) ==
    /\ tb.aggregating # Nothing /\ tb.aggregating.status = "running"
    /\ tb.aggregating.of.version = tb.filterTable.version

SummaryEffect(v) ==
    LET tb == seen.table IN
    /\ <<"summary", v>> \in due
    /\ due' = due \ {<<"summary", v>>}
    /\ IF tb.outdated /\ tb.filterTable # Nothing /\ ~SummaryIsRunning(tb)
          /\ tb.filterTable.version \notin claims
       THEN /\ claims' = claims \cup {tb.filterTable.version}
            /\ SchedulesAggregate(tb.filterTable)
       ELSE UNCHANGED <<table, tasks, nextTask, refs, claims>>
    /\ UNCHANGED <<seen, queue, used>>

-----------------------------------------------------------------------------
\* The scheduler.

\* the effect of a render launches every task it shows, oldest first
Launch(t) ==
    /\ t \in Waiting /\ \A w \in Waiting : t.id <= w.id
    /\ tasks' = (tasks \ {t}) \cup {[t EXCEPT !.phase = "running"]}
    /\ table' = Updated(table, t, "running")
    /\ UNCHANGED <<nextTask, refs, seen, due, queue, claims, used>>

\* mutant: the key of the last filter stays active
SettlesActive(after, counts, others) ==
    /\ queue' = [active |-> IF queue.pending = Nothing THEN queue.active ELSE queue.pending,
                 pending |-> Nothing]
    /\ IF queue.pending = Nothing
       THEN table' = after /\ tasks' = others /\ refs' = counts /\ UNCHANGED nextTask
       ELSE SchedulesFilter(after, counts, others, queue.pending.filters)

\* the promise of the active filter settles: the queue launches what is pending
Settles(after, counts, others) ==
    /\ queue' = [active |-> queue.pending, pending |-> Nothing]
    /\ IF queue.pending = Nothing
       THEN table' = after /\ tasks' = others /\ refs' = counts /\ UNCHANGED nextTask
       ELSE SchedulesFilter(after, counts, others, queue.pending.filters)

Running(t, kind) == t \in tasks /\ t.phase = "running" /\ t.kind = kind

FilterCompletes(t) ==
    /\ Running(t, "filter")
    /\ LET acquired == Acquire(refs, ResultFrame(t), 1) IN
       IF AcceptsFilter(t)
       THEN Settles(Filtered(t), Release(acquired, Replaced(t)), tasks \ {t})
       ELSE Settles(table, Release(acquired, ResultFrame(t)), tasks \ {t})
    /\ UNCHANGED <<seen, due, claims, used>>

OrderingCompletes(t) ==
    /\ Running(t, "order")
    /\ tasks' = tasks \ {t}
    /\ LET acquired == Acquire(refs, ResultFrame(t), 1) IN
       IF AcceptsOrdering(t)
       THEN table' = Ordered(t) /\ refs' = Release(acquired, FrameOf(table.orderingTable))
       ELSE table' = table /\ refs' = Release(acquired, ResultFrame(t))
    /\ UNCHANGED <<nextTask, seen, due, queue, claims, used>>

AggregateCompletes(t) ==
    /\ Running(t, "aggregate")
    /\ tasks' = tasks \ {t}
    /\ claims' = claims \ {t.of.version}
    /\ LET acquired == Acquire(refs, ResultFrame(t), 1) IN
       IF AcceptsAggregate(t)
       THEN table' = Aggregated(t) /\ refs' = Release(acquired, FrameOf(table.aggregate))
       ELSE table' = table /\ refs' = Release(acquired, ResultFrame(t))
    /\ UNCHANGED <<nextTask, seen, due, queue, used>>

\* a task throws: its slot shows the failure, and it is never unregistered
TaskFails(t) ==
    /\ t \in tasks /\ t.phase = "running"
    /\ used < MaxDisturbances
    /\ used' = used + 1
    /\ LET after == Updated(table, t, "failed")
           others == (tasks \ {t}) \cup {[t EXCEPT !.phase = "failed"]}
       IN  IF t.kind = "filter"
           THEN Settles(after, refs, others) /\ UNCHANGED claims
           ELSE /\ table' = after /\ tasks' = others
                /\ claims' = IF t.kind = "aggregate" THEN claims \ {t.of.version} ELSE claims
                /\ UNCHANGED <<nextTask, refs, queue>>
    /\ UNCHANGED <<seen, due>>

-----------------------------------------------------------------------------

\* React renders and runs effects, and a task that runs ends, well or not
Progress ==
    \/ Render \/ OrderEffect
    \/ \E v \in Views : FilterEffect(v) \/ SummaryEffect(v)
    \/ \E t \in tasks : Launch(t) \/ FilterCompletes(t) \/ OrderingCompletes(t)
                          \/ AggregateCompletes(t) \/ TaskFails(t)

Next ==
    \/ \E f \in Selections : Select(f)
    \/ \E o \in Orders : Sort(o)
    \/ ClearOrdering \/ DeleteComputation
    \/ Progress

Spec == Init /\ [][Next]_vars

\* the browser keeps rendering, and every task the scheduler launched ends
FairSpec == Spec /\ WF_vars(Progress)

-----------------------------------------------------------------------------
\* Properties.

\* The reducer's table state, the scheduler's tasks, the frame counts and the filter
\* queue keep their shape.
TypeOK ==
    /\ table \in Slot(TableState)
    /\ tasks \subseteq SchedulerTask
    /\ \A t \in tasks : t.kind = "aggregate" => t.of \in FilterResult
    /\ nextTask \in Nat \ {0}
    /\ refs \in [Frames -> Nat]
    /\ seen.table \in Slot(TableState) /\ (due # {} => seen.table # Nothing)
    /\ queue \in [active : Slot(Request), pending : Slot(Request)]

\* The shown filter table is not mistaken for the result of another selection: when
\* the filtering effect finds the table up to date (and so schedules nothing), the
\* rows shown are those of the current selection.  The effect compares the
\* selection with the filters of the task slot, not with those of the result: that
\* is right only because no older filter may still write the slot, and no older
\* result passes for that of the latest version.
LatestFilterIsShown ==
    table # Nothing /\ FilterIsUpToDate(table) => table.filterTable.filters = table.selection

\* A column summary that is not marked outdated summarises the filter table that is
\* shown: summaries end in any order, and while filters come and go.
SummaryIsOfFilter ==
    table # Nothing /\ table.aggregate # Nothing /\ table.filterTable # Nothing /\ ~table.outdated =>
        table.aggregate.version = table.filterTable.version

\* No data frame that the views still show is dropped: stale results, replaced
\* results and a deleted computation release exactly their own frames.
ShownFramesAreAlive ==
    table # Nothing =>
        \A f \in {DataFrame} \cup FrameOf(table.filterTable) \cup FrameOf(table.orderingTable)
                    \cup FrameOf(table.aggregate) : refs[f] > 0

Shown(selection) ==
    table # Nothing =>
        IF selection = NoFilter THEN table.filterTable = Nothing
        ELSE table.filterTable # Nothing /\ table.filterTable.filters = selection

\* Once the user stops brushing, the table is filtered by the last selection for
\* good: no request is forgotten in the queue of filters, and none is lost to a
\* task that fails, is overtaken, or is for a snapshot that is out of date.
SelectionIsShown ==
    \A f \in Selections :
        <>[](table # Nothing => table.selection = f) => <>[]Shown(f)

=============================================================================
