----------------------------- MODULE AtomicIngest -----------------------------
(***************************************************************************)
(* What the store promises the bridge: the tables the pipe feeds change    *)
(* only by whole messages.  A message either leaves all its rows or none.  *)
(***************************************************************************)
EXTENDS StoreRows

VARIABLE tables   \* [machine, bridge, catalog, samples]

EmptyTables == [machine |-> NoSeen,
                bridge  |-> NoCollector,
                catalog |-> [s \in Sensors |-> NoSeen],
                samples |-> {}]

(* The tables with the first rows of m (those in done) applied to t.       *)
CatalogWith(t, m, done) ==
    [s \in Sensors |-> IF m.kind = "catalog_snapshot" /\ s \in done
                         THEN UpsertCatalogSensor(t.catalog[s], m.sent)
                         ELSE t.catalog[s]]

SamplesWith(t, m, done) ==
    IF m.kind = "sample_batch"
      THEN t.samples \cup ({s \in done : IsCatalogued(t.catalog, s)} \X {m.sampled})
      ELSE t.samples

Ingested(t, m) ==
    [machine |-> UpsertMachineFor(t.machine, m),
     bridge  |-> UpsertCollectorFor(t.bridge, m),
     catalog |-> CatalogWith(t, m, RowsOf(m)),
     samples |-> SamplesWith(t, m, RowsOf(m))]

Init == tables = EmptyTables
Ingest(m) == tables' = Ingested(tables, m)
Next == \E m \in Incoming : Ingest(m)
Spec == Init /\ [][Next]_tables
=============================================================================
