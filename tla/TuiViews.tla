------------------------------ MODULE TuiViews ------------------------------
(***************************************************************************)
(* The views without a table: the detail page of one container             *)
(* (views/detail), the event log (views/events) and the sparklines of the  *)
(* containers (views/graphs).                                              *)
(*                                                                         *)
(* The detail page keeps of a sample or an event the container it is of.   *)
(* The log keeps what an event says, its count and its age, which is       *)
(* counted as far as the oldest event read can still be told from it.      *)
(***************************************************************************)
EXTENDS VirtualTable

CONSTANTS EventTexts,       \* what an event says: container, kind and message
          MergeWindow,      \* 5 s
          MaxAge,           \* bound on the age of an event when it is read
          MaxLog,           \* 2000: entries of the log
          MaxGraphs         \* maxContainers

NoContainer == ""

\* The age from which an entry is too old for every event.
TooOld == MergeWindow + MaxAge + 1

LogEntries == [text : EventTexts, age : 0 .. TooOld, count : Nat]

\* Events as they are read: most kinds leave the count at 0.
LogEvents == [text : EventTexts, age : 0 .. MaxAge, count : Nat]

\* A batch has the samples of each collector, by container.
Batches == [cpu : Seq(Containers), mem : Seq(Containers), io : Seq(Containers),
            net : Seq(Containers), sys : Seq(Containers)]

ASSUME ViewsAssumption ==
    /\ NoContainer \notin Containers
    /\ \A t \in EventTexts : t.container \in Containers
    /\ MergeWindow \in Nat \ {0} /\ MaxAge \in Nat /\ MaxLog \in Nat \ {0}
    /\ MaxGraphs \in Nat \ {0}

NoBatch == [cpu |-> <<>>, mem |-> <<>>, io |-> <<>>, net |-> <<>>, sys |-> <<>>]

VARIABLES detail,       \* the detail page
          log,          \* the event log: entries of text, age and count
          received,     \* history: EventTexts -> events received
          cut,          \* history: EventTexts -> events cut off at the limit
          graphs        \* the containers with sparklines, and their order

-----------------------------------------------------------------------------
(* The detail page.                                                        *)

NewDetail == [container |-> NoContainer, hist |-> {}, events |-> {}, batch |-> NoBatch,
              paused |-> FALSE, search |-> FALSE, drawn |-> NoDrawing]

\* Mutation: the events of the last container stay.
SetContainer_KeepsEvents(d, c) ==
    IF d.container = c THEN d
    ELSE [d EXCEPT !.container = c, !.hist = {}, !.drawn = NoDrawing]

SetContainer(d, c) ==
    IF d.container = c THEN d
    ELSE [d EXCEPT !.container = c, !.hist = {}, !.events = {}, !.drawn = NoDrawing]

\* The containers with samples for the sparklines; the network has none.
Sampled(batch) ==
    Range(batch.cpu) \cup Range(batch.mem) \cup Range(batch.io) \cup Range(batch.sys)

\* from: the containers the batch has events of.
SetDetailData(d, batch, from) ==
    IF d.paused THEN d
    ELSE [d EXCEPT !.batch = batch,
                   !.hist = @ \cup (Sampled(batch) \cap {d.container}),
                   !.events = @ \cup (IF d.container = NoContainer THEN from
                                      ELSE from \cap {d.container}),
                   !.drawn = NoDrawing]

\* Scrolling only moves the viewport.
UpdateDetail(d, key) ==
    [d EXCEPT !.search = IF d.search THEN key # "enter" ELSE key = "/",
              !.paused = IF ~d.search /\ key = "p" THEN ~@ ELSE @,
              !.drawn = NoDrawing]

DrawDetail(d, theme) ==
    [of |-> "detail", container |-> d.container, batch |-> d.batch, hist |-> d.hist,
     events |-> d.events, search |-> d.search, theme |-> theme]

DrawDetailView(d, theme) ==
    IF d.drawn = NoDrawing THEN [d EXCEPT !.drawn = DrawDetail(d, theme)] ELSE d

-----------------------------------------------------------------------------
(* The event log.                                                          *)

\* The entries that say what e says and that the backward scan meets: it stops at
\* the first one that is too old.
Hits(entries, e) ==
    {i \in DOMAIN entries :
        /\ entries[i].text = e.text
        /\ \A j \in i .. Len(entries) : entries[j].age - e.age <= MergeWindow}

\* Mutation: the entry takes the event's count.
Joined_Replaces(old, e) == [old EXCEPT !.count = e.count, !.age = e.age]

\* The entry that an event has joined is as old as the event.
Joined(old, e) == [old EXCEPT !.count = @ + e.count, !.age = e.age]

\* A new event joins the latest such entry.
Merge(entries, e) ==
    LET hits == Hits(entries, e)
    IN IF hits = {} THEN Append(entries, e)
       ELSE [i \in DOMAIN entries |->
                IF i = Max(hits) THEN Joined(entries[i], e) ELSE entries[i]]

Older(entries, elapsed) ==
    [i \in DOMAIN entries |->
        [entries[i] EXCEPT !.age = IF @ + elapsed > TooOld THEN TooOld ELSE @ + elapsed]]

\* An event without a count has happened once.
Occurred(e) == [e EXCEPT !.count = IF @ = 0 THEN 1 ELSE @]

\* The events of a batch, one after the other.
MergeAll(entries, events) ==
    LET after[n \in 0 .. Len(events)] ==
            IF n = 0 THEN entries ELSE Merge(after[n - 1], Occurred(events[n]))
    IN after[Len(events)]

\* How many events that say text the entries stand for.
Counted(entries, text) ==
    LET sum[n \in 0 .. Len(entries)] ==
            IF n = 0 THEN 0
            ELSE sum[n - 1] + IF entries[n].text = text THEN entries[n].count ELSE 0
    IN sum[Len(entries)]

\* How many events that say text a batch reports: one that has no count is one.
Reported(events, text) ==
    Counted([i \in DOMAIN events |->
                IF events[i].count = 0 THEN [events[i] EXCEPT !.count = 1] ELSE events[i]], text)

\* events: what was read since the last batch, elapsed ago at most.
SetLogData(events, elapsed) ==
    LET merged == MergeAll(Older(log, elapsed), events)
        over   == IF Len(merged) > MaxLog THEN Len(merged) - MaxLog ELSE 0
    IN /\ log' = SubSeq(merged, over + 1, Len(merged))
       /\ received' = [t \in EventTexts |-> received[t] + Reported(events, t)]
       /\ cut' = [t \in EventTexts |-> cut[t] + Counted(SubSeq(merged, 1, over), t)]

-----------------------------------------------------------------------------
(* The sparklines.                                                         *)

NewGraphs == [of |-> {}, order |-> <<>>]

GetOrCreate(gs, c) ==
    IF c \in gs.of THEN gs
    ELSE IF Cardinality(gs.of) >= MaxGraphs
         THEN [of |-> (gs.of \ {Head(gs.order)}) \cup {c}, order |-> Append(Tail(gs.order), c)]
         ELSE [of |-> gs.of \cup {c}, order |-> Append(gs.order, c)]

\* The samples of the CPU, then of the memory, I/O and network collectors.
SetGraphsData(gs, batch) ==
    LET samples == batch.cpu \o batch.mem \o batch.io \o batch.net
        after[n \in 0 .. Len(samples)] ==
            IF n = 0 THEN gs ELSE GetOrCreate(after[n - 1], samples[n])
    IN after[Len(samples)]

-----------------------------------------------------------------------------
(* Properties.                                                             *)

\* The order names each container with sparklines once and no other, at most
\* MaxGraphs of them, also when one batch brings more containers than that.
GraphsIndexed ==
    /\ Cardinality(graphs.of) <= MaxGraphs
    /\ IsInjective(graphs.order) /\ Range(graphs.order) = graphs.of

ViewsTypeOK ==
    /\ TableTypeOK
    /\ detail.container \in Containers \cup {NoContainer}
    /\ detail.hist \subseteq Containers /\ detail.events \subseteq Containers
    /\ detail.paused \in BOOLEAN /\ detail.search \in BOOLEAN
    /\ log \in Seq(LogEntries)
    /\ received \in [EventTexts -> Nat] /\ cut \in [EventTexts -> Nat]
    /\ graphs.of \subseteq Containers /\ graphs.order \in Seq(Containers)
    /\ GraphsIndexed

\* Merging and the limit lose no occurrence: each event received is counted in
\* exactly one entry of the log, or was cut off with the oldest entries.
EventsConserved ==
    /\ Len(log) <= MaxLog
    /\ \A t \in EventTexts : received[t] = Counted(log, t) + cut[t]
=============================================================================
