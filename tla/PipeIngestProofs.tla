--------------------------- MODULE PipeIngestProofs ---------------------------
(***************************************************************************)
(* Theorems about PipeIngest: the bridge, the byte stream and the server   *)
(* are well typed, hand the store the messages of a connection in order    *)
(* (OrderedDelivery), hello and the catalogue first, and never wait while  *)
(* they hold a whole line.                                                 *)
(***************************************************************************)
EXTENDS PipeIngest, SequenceTheorems, TLAPS

(* Pieces that are lines from the first one on; the last may be cut short.  *)
Framed(q) ==
    \A i \in 1 .. Len(q) :
        /\ i % 3 = 1 => q[i][2] = "head"
        /\ i % 3 = 2 => q[i] = <<q[i - 1][1], "tail">>
        /\ i % 3 = 0 => q[i] = <<q[i - 2][1], "lf">>

-----------------------------------------------------------------------------
(* What the steps do to the pieces of a stream.                             *)

(* The first line of a buffer is the first line of the stream.              *)
LEMMA DropMoves ==
    ASSUME NEW P, NEW a \in Seq(P), NEW b \in Seq(P), Len(a) >= 3
    PROVE  SubSeq(a \o b, 4, Len(a \o b)) = SubSeq(a, 4, Len(a)) \o b
  OBVIOUS

LEMMA Regrouped ==
    \A a, b, c \in Seq(Pieces) : (a \o b) \o c = a \o (b \o c)
  <1> SUFFICES ASSUME NEW a \in Seq(Pieces), NEW b \in Seq(Pieces), NEW c \in Seq(Pieces)
               PROVE  (a \o b) \o c = a \o (b \o c)
    OBVIOUS
  <1>1. QED BY ConcatAssociative

LEMMA CutJoins ==
    ASSUME NEW P, NEW b \in Seq(P), NEW n \in 1 .. Len(b)
    PROVE  SubSeq(b, 1, n) \o SubSeq(b, n + 1, Len(b)) = b
  BY ConcatAdjacentSubSeq, SubSeqFull

(* A read moves pieces within the stream.                                   *)
LEMMA ReadMoves ==
    ASSUME NEW a \in Seq(Pieces), NEW b \in Seq(Pieces), NEW n, n \in 1 .. Len(b)
    PROVE  (a \o SubSeq(b, 1, n)) \o SubSeq(b, n + 1, Len(b)) = a \o b
  <1>1. SubSeq(b, 1, n) \in Seq(Pieces) /\ SubSeq(b, n + 1, Len(b)) \in Seq(Pieces)
    OBVIOUS
  <1>2. (a \o SubSeq(b, 1, n)) \o SubSeq(b, n + 1, Len(b))
            = a \o (SubSeq(b, 1, n) \o SubSeq(b, n + 1, Len(b)))
    BY <1>1, Regrouped, Zenon
  <1>3. SubSeq(b, 1, n) \o SubSeq(b, n + 1, Len(b)) = b
    BY CutJoins
  <1>4. QED BY <1>2, <1>3, Zenon

(* A write moves a piece from the bridge's end into the stream.             *)
LEMMA WriteMoves ==
    \A a, b, c \in Seq(Pieces) :
        c # <<>> => (a \o Append(b, Head(c))) \o Tail(c) = (a \o b) \o c
  <1> SUFFICES ASSUME NEW a \in Seq(Pieces), NEW b \in Seq(Pieces),
                      NEW c \in Seq(Pieces), c # <<>>
               PROVE  (a \o Append(b, Head(c))) \o Tail(c) = (a \o b) \o c
    OBVIOUS
  <1>1. /\ Head(c) \in Pieces /\ Tail(c) \in Seq(Pieces)
        /\ <<Head(c)>> \in Seq(Pieces)
    OBVIOUS
  <1>2. c = <<Head(c)>> \o Tail(c)
    BY <1>1
  <1>3. a \o Append(b, Head(c)) = (a \o b) \o <<Head(c)>>
    BY <1>1, AppendIsConcat, ConcatAssociative
  <1>4. (a \o b) \in Seq(Pieces)
    OBVIOUS
  <1>5. ((a \o b) \o <<Head(c)>>) \o Tail(c) = (a \o b) \o (<<Head(c)>> \o Tail(c))
    BY <1>1, <1>4, Regrouped, Zenon
  <1>6. QED BY <1>2, <1>3, <1>5

LEMMA AppendMoves ==
    ASSUME NEW P, NEW a \in Seq(P), NEW b \in Seq(P), NEW x \in P
    PROVE  a \o Append(b, x) = Append(a \o b, x)
  OBVIOUS

LEMMA FramedPrefix ==
    ASSUME NEW P, NEW a \in Seq(P), NEW b \in Seq(P), Framed(a \o b)
    PROVE  Framed(a)
  BY DEF Framed

LEMMA FramedRest ==
    ASSUME NEW P, NEW q \in Seq(P), Framed(q), Len(q) >= 3
    PROVE  Framed(SubSeq(q, 4, Len(q)))
  BY DEF Framed

LEMMA LineType ==
    ASSUME NEW m \in Incoming
    PROVE  /\ Line(m) \in Seq(Pieces) /\ Len(Line(m)) = 3
           /\ Line(m)[1] = <<m, "head">>
           /\ Line(m)[2] = <<m, "tail">>
           /\ Line(m)[3] = <<m, "lf">>
  BY DEF Line, Pieces, Parts

(* A line behind whole lines.                                               *)
LEMMA FramedLine ==
    ASSUME NEW a \in Seq(Pieces), NEW m \in Incoming, Framed(a), Len(a) % 3 = 0
    PROVE  /\ Framed(a \o Line(m))
           /\ a \o Line(m) \in Seq(Pieces)
           /\ Len(a \o Line(m)) = Len(a) + 3
           /\ (a \o Line(m))[Len(a) + 1] = <<m, "head">>
           /\ \A i \in 1 .. Len(a) : (a \o Line(m))[i] = a[i]
  <1> DEFINE q == a \o Line(m)
  <1>1. /\ q \in Seq(Pieces)
        /\ Len(q) = Len(a) + 3
        /\ q[Len(a) + 1] = <<m, "head">>
        /\ q[Len(a) + 2] = <<m, "tail">>
        /\ q[Len(a) + 3] = <<m, "lf">>
        /\ \A i \in 1 .. Len(a) : q[i] = a[i]
    <2> DEFINE l == Line(m)
    <2>1. l \in Seq(Pieces)
      BY LineType
    <2>2. /\ Len(l) = 3
          /\ l[1] = <<m, "head">> /\ l[2] = <<m, "tail">> /\ l[3] = <<m, "lf">>
      BY LineType
    <2> HIDE DEF l
    <2>3. /\ a \o l \in Seq(Pieces)
          /\ Len(a \o l) = Len(a) + Len(l)
          /\ \A i \in 1 .. Len(a) + Len(l) :
                (a \o l)[i] = IF i <= Len(a) THEN a[i] ELSE l[i - Len(a)]
      BY <2>1
    <2>4. ASSUME NEW k \in 1 .. 3 PROVE (a \o l)[Len(a) + k] = l[k]
      <3>1. Len(a) + k \in 1 .. Len(a) + Len(l) /\ ~(Len(a) + k <= Len(a))
        BY <2>2
      <3>2. Len(a) + k - Len(a) = k
        OBVIOUS
      <3>3. QED BY <2>3, <3>1, <3>2
    <2>5. ASSUME NEW i \in 1 .. Len(a) PROVE (a \o l)[i] = a[i]
      BY <2>1
    <2>6. QED BY <2>2, <2>3, <2>4, <2>5 DEF l
  <1> HIDE DEF q
  <1>2. ASSUME NEW i \in 1 .. Len(a) + 3
        PROVE  /\ i % 3 = 1 => q[i][2] = "head"
               /\ i % 3 = 2 => q[i] = <<q[i - 1][1], "tail">>
               /\ i % 3 = 0 => q[i] = <<q[i - 2][1], "lf">>
    <2>1. CASE i <= Len(a)
      <3>1. i \in 1 .. Len(a)
        BY <2>1
      <3>2. q[i] = a[i]
        BY <3>1, <1>1
      <3>3. i % 3 = 2 => i - 1 \in 1 .. Len(a) /\ q[i - 1] = a[i - 1]
        <4>1. i % 3 = 2 => i - 1 \in 1 .. Len(a)
          BY <3>1
        <4>2. QED BY <4>1, <1>1
      <3>4. i % 3 = 0 => i - 2 \in 1 .. Len(a) /\ q[i - 2] = a[i - 2]
        <4>1. i % 3 = 0 => i - 2 \in 1 .. Len(a)
          BY <3>1
        <4>2. QED BY <4>1, <1>1
      <3>5. QED BY <3>1, <3>2, <3>3, <3>4 DEF Framed
    <2>2. CASE i = Len(a) + 1
      <3>1. i % 3 = 1
        BY <2>2
      <3>2. QED BY <2>2, <3>1, <1>1
    <2>3. CASE i = Len(a) + 2
      <3>1. i % 3 = 2 /\ i - 1 = Len(a) + 1
        BY <2>3
      <3>2. QED BY <2>3, <3>1, <1>1
    <2>4. CASE i = Len(a) + 3
      <3>1. i % 3 = 0 /\ i - 2 = Len(a) + 1
        BY <2>4
      <3>2. QED BY <2>4, <3>1, <1>1
    <2>5. QED BY <2>1, <2>2, <2>3, <2>4
  <1>3. Framed(q)
    BY <1>1, <1>2 DEF Framed
  <1>4. QED BY <1>1, <1>3 DEF q

-----------------------------------------------------------------------------
(* The store that the messages are handed to reads the row operators of     *)
(* StoreRows through its own copy.                                          *)

LEMMA SameRows ==
    /\ \A r, m : Store!UpsertMachineFor(r, m) = UpsertMachineFor(r, m)
    /\ \A r, m : Store!UpsertCollectorFor(r, m) = UpsertCollectorFor(r, m)
    /\ \A r, t : Store!UpsertCatalogSensor(r, t) = UpsertCatalogSensor(r, t)
    /\ \A m : Store!RowsOf(m) = RowsOf(m)
  BY DEF Store!UpsertCatalogSensor, UpsertCatalogSensor, Store!NoTime, NoTime,
         Store!UpsertMachineFor, UpsertMachineFor,
         Store!UpsertMachine, UpsertMachine, Store!SeenTime, SeenTime,
         Store!Later, Later, Store!UpsertCollectorFor, UpsertCollectorFor,
         Store!UpsertCollector, UpsertCollector, Store!CollectorStatus,
         CollectorStatus, Store!HelloTime, HelloTime, Store!SampleTime, SampleTime,
         Store!RowsOf, RowsOf

TablesType(t) ==
    /\ t.machine \in SeenRow /\ t.bridge \in CollectorRow
    /\ t.catalog \in [Sensors -> SeenRow]
    /\ t.samples \subseteq Sensors \X Time

LEMMA MessageFields ==
    ASSUME NEW m \in Incoming
    PROVE  /\ m.kind \in Kinds /\ m.sent \in Time /\ m.rows \in Seq(Sensors)
           /\ m.kind = "sample_batch" => m.sampled \in Time
           /\ SeenTime(m) \in Time
           /\ CollectorStatus(m) \in Statuses
           /\ HelloTime(m) \in Time \cup {NoTime}
           /\ SampleTime(m) \in Time \cup {NoTime}
  BY IncomingAssumption, StatusAssumption
     DEF IncomingAssumption, StatusAssumption, Message, SeenTime, CollectorStatus,
         HelloTime, SampleTime

LEMMA RowsAreSensors ==
    ASSUME NEW m \in Incoming PROVE RowsOf(m) \subseteq Sensors
  BY MessageFields DEF RowsOf

LEMMA EmptyTablesType == TablesType(Store!EmptyTables)
  BY DEF TablesType, Store!EmptyTables, SeenRow, CollectorRow, Store!NoSeen, NoSeen,
         Store!NoCollector, NoTime, Store!NoTime

LEMMA IngestedType ==
    ASSUME NEW m \in Incoming, NEW t, TablesType(t)
    PROVE  TablesType(Store!Ingested(t, m))
  <1> DEFINE u == Store!Ingested(t, m)
  <1>1. u.machine \in SeenRow
    <2>1. \A r \in SeenRow, x \in Time : UpsertMachine(r, x) \in SeenRow
      BY TimeAssumption
         DEF UpsertMachine, SeenRow, NoSeen, NoTime, Later, TimeAssumption
    <2>2. u.machine = UpsertMachine(t.machine, SeenTime(m))
      BY SameRows DEF Store!Ingested, UpsertMachineFor
    <2>3. QED BY <2>1, <2>2, MessageFields DEF TablesType
  <1>2. u.bridge \in CollectorRow
    BY SameRows, MessageFields
       DEF Store!Ingested, TablesType, UpsertCollectorFor, UpsertCollector,
           CollectorRow, Later
  <1>3. u.catalog \in [Sensors -> SeenRow]
    <2>1. \A r \in SeenRow : UpsertCatalogSensor(r, m.sent) \in SeenRow
      BY MessageFields, TimeAssumption
         DEF UpsertCatalogSensor, SeenRow, NoSeen, NoTime, TimeAssumption
    <2>2. QED
      BY <2>1, SameRows DEF Store!Ingested, Store!CatalogWith, TablesType
  <1>4. u.samples \subseteq Sensors \X Time
    BY SameRows, RowsAreSensors, MessageFields
       DEF Store!Ingested, Store!SamplesWith, TablesType
  <1> HIDE DEF u
  <1>5. QED BY <1>1, <1>2, <1>3, <1>4 DEF TablesType, u

-----------------------------------------------------------------------------
(* What the server makes of the pieces it holds.                            *)

LEMMA PieceParts ==
    ASSUME NEW q \in Seq(Pieces), NEW i \in 1 .. Len(q)
    PROVE  /\ q[i][1] \in Incoming
           /\ q[i][2] \in {"head", "tail", "lf"}
           /\ q[i] = <<q[i][1], q[i][2]>>
  BY DEF Pieces, Parts

LEMMA FirstLine ==
    ASSUME pending \in Seq(Pieces), Framed(pending), HasBreak
    PROVE  /\ Len(pending) >= 3
           /\ FirstBreak = 3
           /\ pending[1] = <<pending[1][1], "head">>
           /\ pending[2] = <<pending[1][1], "tail">>
           /\ pending[3] = <<pending[1][1], "lf">>
  <1>1. ASSUME NEW i \in 1 .. Len(pending), IsBreak(pending[i]) PROVE i >= 3
    <2>1. i # 1
      <3>1. i = 1 => pending[i][2] = "head"
        BY DEF Framed
      <3>2. QED BY <3>1, <1>1 DEF IsBreak
    <2>2. i # 2
      <3>1. i = 2 => pending[i] = <<pending[1][1], "tail">>
        BY DEF Framed
      <3>2. QED BY <3>1, <1>1 DEF IsBreak
    <2>3. QED BY <2>1, <2>2
  <1>2. Len(pending) >= 3
    BY <1>1 DEF HasBreak
  <1>3. /\ pending[1][2] = "head"
        /\ pending[2] = <<pending[1][1], "tail">>
        /\ pending[3] = <<pending[1][1], "lf">>
    BY <1>2 DEF Framed
  <1>4. pending[1] = <<pending[1][1], "head">>
    BY <1>2, <1>3, PieceParts
  <1>5. ~IsBreak(pending[1]) /\ ~IsBreak(pending[2]) /\ IsBreak(pending[3])
    BY <1>3 DEF IsBreak
  <1>6. FirstBreak = 3
    <2>1. \A j \in 1 .. 2 : ~IsBreak(pending[j])
      BY <1>5
    <2>2. \A i \in 1 .. Len(pending) :
             IsBreak(pending[i]) /\ (\A j \in 1 .. i - 1 : ~IsBreak(pending[j])) => i = 3
      BY <1>1, <1>2, <1>5
    <2>3. 3 \in 1 .. Len(pending) /\ \A j \in 1 .. 3 - 1 : ~IsBreak(pending[j])
      BY <1>2, <2>1
    <2>4. QED BY <1>5, <2>2, <2>3 DEF FirstBreak
  <1>7. QED BY <1>2, <1>3, <1>4, <1>6

LEMMA NoWholeLine ==
    ASSUME pending \in Seq(Pieces), Framed(pending), ~HasBreak
    PROVE  Len(pending) <= 2
  <1>1. Len(pending) >= 3 => pending[3][2] = "lf"
    BY DEF Framed
  <1>2. QED BY <1>1 DEF HasBreak, IsBreak

(* A line is its message.                                                   *)
LEMMA LineIsMessage ==
    ASSUME NEW m \in Incoming, NEW line, line = << <<m, "head">>, <<m, "tail">> >>
    PROVE  IsMessage(line) /\ Parsed(line) = m
  BY DEF IsMessage, Parsed

LEMMA PairOf == ASSUME NEW P, NEW s \in Seq(P), Len(s) = 2 PROVE s = <<s[1], s[2]>>
  OBVIOUS

LEMMA FirstTwo ==
    ASSUME NEW P, NEW q \in Seq(P), Len(q) >= 3
    PROVE  SubSeq(q, 1, 2) = <<q[1], q[2]>>
  <1>1. /\ SubSeq(q, 1, 2) \in Seq(P) /\ Len(SubSeq(q, 1, 2)) = 2
        /\ SubSeq(q, 1, 2)[1] = q[1] /\ SubSeq(q, 1, 2)[2] = q[2]
    OBVIOUS
  <1>2. QED BY <1>1, PairOf, Zenon

LEMMA FirstLineIsMessage ==
    ASSUME pending \in Seq(Pieces), Framed(pending), HasBreak
    PROVE  LET line == SubSeq(pending, 1, FirstBreak - 1) IN
             /\ IsMessage(line)
             /\ Parsed(line) = pending[1][1] /\ pending[1][1] \in Incoming
  <1>1. Len(pending) >= 3
    BY FirstLine
  <1>2. SubSeq(pending, 1, 2) = <<pending[1], pending[2]>>
    BY <1>1, FirstTwo
  <1>3. pending[1][1] \in Incoming
    BY <1>1, PieceParts
  <1>4. SubSeq(pending, 1, 2)
            = << <<pending[1][1], "head">>, <<pending[1][1], "tail">> >>
    BY <1>2, FirstLine, Zenon
  <1>5. FirstBreak - 1 = 2
    BY FirstLine
  <1>6. QED BY <1>3, <1>4, <1>5, LineIsMessage

LEMMA LastLine ==
    ASSUME pending \in Seq(Pieces), Framed(pending), Len(pending) <= 2
    PROVE  /\ IsMessage(pending) <=> Len(pending) = 2
           /\ Len(pending) = 2 => /\ Parsed(pending) = pending[1][1]
                                  /\ pending[1][1] \in Incoming
  <1>1. IsMessage(pending) => Len(pending) = 2
    BY DEF IsMessage
  <1>2. ASSUME Len(pending) = 2
        PROVE  IsMessage(pending) /\ Parsed(pending) = pending[1][1]
               /\ pending[1][1] \in Incoming
    <2>1. pending = <<pending[1], pending[2]>>
      BY <1>2
    <2>2. pending[1][1] \in Incoming /\ pending[1] = <<pending[1][1], pending[1][2]>>
      BY <1>2, PieceParts
    <2>3. pending[1][2] = "head" /\ pending[2] = <<pending[1][1], "tail">>
      BY <1>2 DEF Framed
    <2>4. QED BY <2>1, <2>2, <2>3, LineIsMessage
  <1>3. QED BY <1>1, <1>2

-----------------------------------------------------------------------------
(* The inductive invariant.                                                 *)

(* What is left to write of the line of m.                                  *)
Rests(m) == {Line(m), << <<m, "tail">>, <<m, "lf">> >>, << <<m, "lf">> >>}

BridgeHolds ==
    /\ bpc # "scan" => \E found \in SUBSET Sensors : catalog = Listed(found)
    /\ bpc # "write" => unsent = <<>>
    /\ bpc = "write" => \E m \in Incoming : unsent \in Rests(m)

(* Which ends of the pipe hold what.                                        *)
PipeHolds ==
    /\ link = "none" => wire = <<>>
    /\ link = "open" =>
         bpc \in {"hello", "catalog", "loop", "batch", "heartbeat", "write"}
    /\ spc \in {"create", "down"} => link = "none"
    /\ spc \in {"create", "listen", "down"} => pending = <<>>
    /\ spc \in {"read", "dispatch", "flush"} => link \in {"open", "closed"}
    /\ spc \in {"read", "flush"} => ~HasBreak

(* All that was or will be written on this connection and is not handled:   *)
(* what the bridge still holds of a line counts while it can be written.    *)
Sent == IF link = "open" THEN Stream \o unsent ELSE Stream

StreamHolds ==
    /\ Framed(Sent)
    /\ link = "open" => Len(Sent) % 3 = 0

(* The kinds handled on this connection, and where the bridge then is.      *)
Heard == IF spc = "listen" THEN <<>> ELSE greeting

Begins ==
    /\ Len(Heard) = 0 =>
         /\ Len(Sent) >= 1 => Sent[1][1].kind = "hello"
         /\ Len(Sent) >= 4 => Sent[4][1].kind = "catalog_snapshot"
    /\ Len(Heard) = 1 =>
         (Len(Sent) >= 1 => Sent[1][1].kind = "catalog_snapshot")

Counted == 3 * Len(Heard) + Len(Sent)

BridgeKeepsOrder ==
    link = "open" =>
      /\ bpc = "hello" => Counted = 0
      /\ bpc = "catalog" => Counted = 3
      /\ bpc \in {"loop", "batch", "heartbeat"} => Counted >= 6
      /\ bpc = "write" =>
           IF Head(unsent)[1].kind = "hello" THEN Counted = 3 ELSE Counted >= 6


LEMMA RestSteps ==
    ASSUME NEW m \in Incoming, NEW u \in Rests(m)
    PROVE  /\ u \in Seq(Pieces) /\ u # <<>>
           /\ Head(u) \in Pieces /\ Head(u)[1] = m
           /\ Tail(u) \in Seq(Pieces)
           /\ Tail(u) = <<>> \/ Tail(u) \in Rests(m)
  <1> DEFINE h == <<m, "head">>
             t == <<m, "tail">>
             e == <<m, "lf">>
  <1>1. h \in Pieces /\ t \in Pieces /\ e \in Pieces /\ h[1] = m /\ t[1] = m /\ e[1] = m
    BY DEF Pieces, Parts
  <1>2. u = <<h, t, e>> \/ u = <<t, e>> \/ u = <<e>>
    BY DEF Rests, Line
  <1>3. Rests(m) = {<<h, t, e>>, <<t, e>>, <<e>>}
    BY DEF Rests, Line
  <1> HIDE DEF h, t, e
  <1>4. CASE u = <<h, t, e>>
    <2>1. Head(u) = h /\ Tail(u) = <<t, e>>
      BY <1>4
    <2>2. QED BY <1>1, <1>3, <1>4, <2>1
  <1>5. CASE u = <<t, e>>
    <2>1. Head(u) = t /\ Tail(u) = <<e>>
      BY <1>5
    <2>2. QED BY <1>1, <1>3, <1>5, <2>1
  <1>6. CASE u = <<e>>
    <2>1. Head(u) = e /\ Tail(u) = <<>>
      BY <1>6
    <2>2. QED BY <1>1, <1>3, <1>6, <2>1
  <1>7. QED BY <1>2, <1>4, <1>5, <1>6

(* What the bridge builds arrives.                                          *)
LEMMA BuiltIsIncoming ==
    ASSUME NEW t \in Time
    PROVE  /\ BuildHello(t) \in Incoming /\ BuildHeartbeat(t) \in Incoming
           /\ BuildHello(t).kind = "hello" /\ BuildHeartbeat(t).kind = "heartbeat"
           /\ (\E found \in SUBSET Sensors : catalog = Listed(found))
                 => BuildCatalogSnapshot(t) \in Incoming
           /\ BuildCatalogSnapshot(t).kind = "catalog_snapshot"
           /\ \A now \in Time : /\ BuildSampleBatch(t, now) \in Incoming
                                /\ BuildSampleBatch(t, now).kind = "sample_batch"
  BY BuiltAssumption
     DEF BuiltAssumption, BuildHello, BuildHeartbeat, BuildCatalogSnapshot,
         BuildSampleBatch, CatalogOf, BatchOf, Message0

LEMMA ListedType ==
    ASSUME NEW found \in SUBSET Sensors PROVE Listed(found) \in Seq(Sensors)
  <1>1. PICK t \in Time : CatalogOf(Listed(found), t) \in Incoming
    BY BuiltAssumption DEF BuiltAssumption
  <1>2. CatalogOf(Listed(found), t).rows = Listed(found)
    BY DEF CatalogOf, Message0
  <1>3. QED BY <1>1, <1>2, MessageFields

(* Handling a line that is a message, or is not.                            *)
LEMMA HandleType ==
    ASSUME TypeOK, NEW line, Handle(line), IsMessage(line) => Parsed(line) \in Incoming
    PROVE  /\ TablesType(tables') /\ rejects' \in Nat
           /\ greeting' \in Seq(Kinds) /\ Len(greeting') <= 2
  <1>1. CASE ~IsMessage(line)
    BY <1>1 DEF Handle, TypeOK, TablesType
  <1>2. CASE IsMessage(line)
    <2>1. TablesType(tables)
      BY DEF TypeOK, TablesType
    <2>2. TablesType(Store!Ingested(tables, Parsed(line)))
      BY <1>2, <2>1, IngestedType
    <2>3. \/ /\ tables' = Store!Ingested(tables, Parsed(line))
             /\ rejects' = rejects
          \/ /\ rejects' = rejects + 1
             /\ tables' = tables
      BY <1>2 DEF Handle
    <2>4. TablesType(tables') /\ rejects' \in Nat
      BY <2>1, <2>2, <2>3 DEF TypeOK
    <2>5. Parsed(line).kind \in Kinds
      BY <1>2, MessageFields
    <2>6. greeting' = IF Len(greeting) < 2 THEN Append(greeting, Parsed(line).kind)
                                           ELSE greeting
      BY <1>2 DEF Handle
    <2>7. greeting' \in Seq(Kinds) /\ Len(greeting') <= 2
      BY <2>5, <2>6 DEF TypeOK
    <2>8. QED BY <2>4, <2>7
  <1>3. QED BY <1>1, <1>2

-----------------------------------------------------------------------------
(* Types, and which end holds what.                                         *)

Ends == TypeOK /\ BridgeHolds /\ PipeHolds

(* PipeHolds does not look at the bridge while no bytes move.               *)
LEMMA HasBreakFrame == ASSUME pending' = pending PROVE HasBreak' = HasBreak
  BY DEF HasBreak

LEMMA BridgeTypes ==
    ASSUME Ends,
           HardwareChanges \/ BridgeScan \/ BridgeConnect \/ BridgeLoop
           \/ BridgeBackoff \/ BridgeDies
    PROVE  Ends'
  <1> USE HasBreakFrame DEF Ends, BpcValues
  <1>1. CASE HardwareChanges
    BY <1>1 DEF HardwareChanges, TypeOK, BridgeHolds, PipeHolds, bridge, pipe, server
  <1>2. CASE BridgeScan
    <2>1. /\ BuildCatalog \in {Listed(found) : found \in SUBSET Sensors}
          /\ BuildCatalog \in Seq(Sensors)
      BY ListedType DEF BuildCatalog
    <2>2. TypeOK'
      BY <1>2, <2>1 DEF BridgeScan, BridgeFrame, TypeOK, pipe, server, counts
    <2>3. BridgeHolds'
      BY <1>2, <2>1 DEF BridgeScan, BridgeFrame, BridgeHolds
    <2>4. PipeHolds'
      BY <1>2 DEF BridgeScan, BridgeFrame, PipeHolds, pipe, server
    <2>5. QED BY <2>2, <2>3, <2>4
  <1>3. CASE BridgeConnect
    BY <1>3 DEF BridgeConnect, BridgeFrame, TypeOK, BridgeHolds, PipeHolds, server, counts
  <1>4. CASE BridgeLoop
    BY <1>4 DEF BridgeLoop, BridgeFrame, TypeOK, BridgeHolds, PipeHolds, pipe, server,
                counts
  <1>5. CASE BridgeBackoff
    BY <1>5 DEF BridgeBackoff, BridgeFrame, TypeOK, BridgeHolds, PipeHolds, pipe, server,
                counts
  <1>6. CASE BridgeDies
    BY <1>6 DEF BridgeDies, Hangup, TypeOK, BridgeHolds, PipeHolds, server
  <1>7. QED BY <1>1, <1>2, <1>3, <1>4, <1>5, <1>6

(* What the bridge sends, and how far that gets it.                         *)
LEMMA SendSteps ==
    ASSUME Ends, BridgeSend
    PROVE  \/ /\ link' = (IF link = "open" THEN "closed" ELSE link)
              /\ bpc' = "backoff" /\ unsent' = unsent
           \/ \E m \in Incoming :
                /\ link' = link /\ bpc' = "write" /\ unsent' = Line(m)
                /\ bpc = "hello" => m.kind = "hello"
                /\ bpc = "catalog" => m.kind = "catalog_snapshot"
                /\ bpc \in {"batch", "heartbeat"} =>
                     m.kind \in {"sample_batch", "heartbeat"}
  <1>1. PICK t \in Time, now \in Time :
          LET m == CASE bpc = "hello"     -> BuildHello(t)
                     [] bpc = "catalog"   -> BuildCatalogSnapshot(t)
                     [] bpc = "batch"     -> BuildSampleBatch(t, now)
                     [] bpc = "heartbeat" -> BuildHeartbeat(t)
          IN SendOrThrow(m)
    BY DEF BridgeSend
  <1>2. ASSUME NEW m \in Incoming, SendOrThrow(m),
               /\ bpc = "hello" => m.kind = "hello"
               /\ bpc = "catalog" => m.kind = "catalog_snapshot"
               /\ bpc \in {"batch", "heartbeat"} =>
                     m.kind \in {"sample_batch", "heartbeat"}
        PROVE  \/ /\ link' = (IF link = "open" THEN "closed" ELSE link)
                  /\ bpc' = "backoff" /\ unsent' = unsent
               \/ /\ link' = link /\ bpc' = "write" /\ unsent' = Line(m)
    BY <1>2 DEF SendOrThrow, Hangup
  <1>3. CASE bpc = "hello"
    <2>1. SendOrThrow(BuildHello(t)) BY <1>1, <1>3
    <2>2. QED BY <1>2, <1>3, <2>1, BuiltIsIncoming
  <1>4. CASE bpc = "catalog"
    <2>1. SendOrThrow(BuildCatalogSnapshot(t)) BY <1>1, <1>4
    <2>2. BuildCatalogSnapshot(t) \in Incoming
      BY <1>4, BuiltIsIncoming DEF Ends, BridgeHolds
    <2>3. QED BY <1>2, <1>4, <2>1, <2>2, BuiltIsIncoming
  <1>5. CASE bpc = "batch"
    <2>1. SendOrThrow(BuildSampleBatch(t, now)) BY <1>1, <1>5
    <2>2. QED BY <1>2, <1>5, <2>1, BuiltIsIncoming
  <1>6. CASE bpc = "heartbeat"
    <2>1. SendOrThrow(BuildHeartbeat(t)) BY <1>1, <1>6
    <2>2. QED BY <1>2, <1>6, <2>1, BuiltIsIncoming
  <1>7. QED BY <1>3, <1>4, <1>5, <1>6 DEF BridgeSend

LEMMA SendTypes == ASSUME Ends, BridgeSend PROVE Ends'
  <1>1. /\ UNCHANGED <<catalog, wire, announced, reading, spc, pending, tables,
                       changes, bridgeDeaths, agentDeaths, rejects, pipeErrors, greeting>>
        /\ bpc \in {"hello", "catalog", "batch", "heartbeat"}
    BY DEF BridgeSend, BridgeFrame, server, counts
  <1>2. /\ \A m \in Incoming : Line(m) \in Seq(Pieces) /\ Line(m) \in Rests(m)
        /\ unsent \in Seq(Pieces)
    BY LineType DEF Rests, Ends, TypeOK
  <1>3. TypeOK'
    BY <1>1, <1>2, SendSteps DEF Ends, TypeOK, BpcValues
  <1>4. BridgeHolds'
    BY <1>1, <1>2, SendSteps DEF Ends, BridgeHolds
  <1>5. PipeHolds'
    BY <1>1, SendSteps, HasBreakFrame DEF Ends, PipeHolds
  <1>6. QED BY <1>3, <1>4, <1>5 DEF Ends

(* A piece goes into the pipe, or the bridge finds it closed.               *)
LEMMA WriteSteps ==
    ASSUME Ends, BridgeWrite
    PROVE  /\ bpc = "write"
           /\ UNCHANGED <<catalog, link, reading, spc, pending, tables, changes,
                          bridgeDeaths, agentDeaths, rejects, pipeErrors, greeting>>
           /\ \/ /\ link = "open" /\ Len(wire) < WireCapacity
                 /\ \E m \in Incoming :
                      /\ unsent \in Rests(m)
                      /\ wire' = Append(wire, Head(unsent)) /\ unsent' = Tail(unsent)
                      /\ \/ unsent' = <<>> /\ bpc' \in AfterMessage(m.kind)
                         \/ unsent' \in Rests(m) /\ bpc' = "write"
                      /\ announced' \in {RowsOf(m), announced}
              \/ /\ link # "open"
                 /\ unsent' = <<>> /\ bpc' = "backoff"
                 /\ wire' = wire /\ announced' = announced
  <1>1. /\ bpc = "write"
        /\ UNCHANGED <<catalog, link, reading, spc, pending, tables, changes,
                       bridgeDeaths, agentDeaths, rejects, pipeErrors, greeting>>
    BY DEF BridgeWrite, BridgeFrame, server, counts
  <1>2. CASE link # "open"
    BY <1>1, <1>2 DEF BridgeWrite
  <1>3. CASE link = "open"
    <2>1. PICK m \in Incoming : unsent \in Rests(m)
      BY <1>1 DEF Ends, BridgeHolds
    <2>2. /\ Len(wire) < WireCapacity
          /\ wire' = Append(wire, Head(unsent)) /\ unsent' = Tail(unsent)
          /\ IF unsent' = <<>> THEN bpc' \in AfterMessage(Head(unsent)[1].kind)
                               ELSE bpc' = bpc
          /\ announced' = IF Head(unsent)[1].kind = "catalog_snapshot"
                            THEN RowsOf(Head(unsent)[1]) ELSE announced
      BY <1>3 DEF BridgeWrite
    <2>3. /\ Head(unsent)[1] = m
          /\ Tail(unsent) = <<>> \/ Tail(unsent) \in Rests(m)
          /\ \A u \in Rests(m) : u # <<>>
      BY <2>1, RestSteps
    <2>4. \/ unsent' = <<>> /\ bpc' \in AfterMessage(m.kind)
          \/ unsent' \in Rests(m) /\ bpc' = "write"
      BY <1>1, <2>2, <2>3
    <2>5. announced' \in {RowsOf(m), announced}
      BY <2>2, <2>3
    <2>6. QED BY <1>1, <1>3, <2>1, <2>2, <2>4, <2>5
  <1>4. QED BY <1>1, <1>2, <1>3

LEMMA WriteTypes == ASSUME Ends, BridgeWrite PROVE Ends'
  <1>1. /\ bpc = "write"
        /\ UNCHANGED <<catalog, link, reading, spc, pending, tables, changes,
                       bridgeDeaths, agentDeaths, rejects, pipeErrors, greeting>>
    BY WriteSteps
  <1>2. CASE link # "open"
    <2>1. unsent' = <<>> /\ bpc' = "backoff" /\ wire' = wire /\ announced' = announced
      BY <1>2, WriteSteps
    <2>2. TypeOK'
      BY <1>1, <2>1 DEF Ends, TypeOK, BpcValues
    <2>3. BridgeHolds'
      BY <1>1, <2>1 DEF Ends, BridgeHolds
    <2>4. PipeHolds'
      BY <1>1, <1>2, <2>1, HasBreakFrame DEF Ends, PipeHolds
    <2>5. QED BY <2>2, <2>3, <2>4 DEF Ends
  <1>3. CASE link = "open"
    <2>1. PICK m \in Incoming :
            /\ Len(wire) < WireCapacity
            /\ unsent \in Rests(m)
            /\ wire' = Append(wire, Head(unsent)) /\ unsent' = Tail(unsent)
            /\ \/ unsent' = <<>> /\ bpc' \in AfterMessage(m.kind)
               \/ unsent' \in Rests(m) /\ bpc' = "write"
            /\ announced' \in {RowsOf(m), announced}
      BY <1>3, WriteSteps
    <2>2. /\ Head(unsent) \in Pieces
          /\ unsent' \in Seq(Pieces)
          /\ \A u \in Rests(m) : u # <<>>
      BY <2>1, RestSteps
    <2>3. AfterMessage(m.kind) \subseteq {"catalog", "loop", "heartbeat"}
      BY MessageFields DEF Kinds, AfterMessage
    <2>4. wire' \in Seq(Pieces) /\ Len(wire') <= WireCapacity
      BY <2>1, <2>2, PipeAssumption DEF Ends, TypeOK, PipeAssumption
    <2>5. announced' \subseteq Sensors
      BY <2>1, RowsAreSensors DEF Ends, TypeOK
    <2>6. bpc' \in {"catalog", "loop", "heartbeat", "write"}
      BY <2>1, <2>3
    <2>7. TypeOK'
      BY <1>1, <2>2, <2>4, <2>5, <2>6 DEF Ends, TypeOK, BpcValues
    <2>8. BridgeHolds'
      BY <1>1, <2>1, <2>2, <2>3 DEF Ends, BridgeHolds
    <2>9. PipeHolds'
      BY <1>1, <1>3, <2>6, HasBreakFrame DEF Ends, PipeHolds
    <2>10. QED BY <2>7, <2>8, <2>9 DEF Ends
  <1>4. QED BY <1>2, <1>3

-----------------------------------------------------------------------------
(* The server's steps need that what it holds is framed.                    *)

LEMMA Prefixes ==
    ASSUME Ends, StreamHolds PROVE Framed(Stream) /\ Framed(pending)
  <1>1. Stream \in Seq(Pieces)
    BY DEF Stream, Ends, TypeOK
  <1>2. Framed(Stream)
    BY <1>1, FramedPrefix DEF StreamHolds, Sent, Ends, TypeOK
  <1>3. QED BY <1>2, FramedPrefix DEF Stream, Ends, TypeOK

LEMMA CreateTypes == ASSUME Ends, CreateInstance \/ ConnectInstance PROVE Ends'
  <1>1. /\ Len(<<>>) = 0 /\ WireCapacity \in Nat
        /\ <<>> \in Seq(Pieces) /\ <<>> \in Seq(Kinds)
    BY PipeAssumption DEF PipeAssumption
  <1>2. pending' = pending /\ (pending = <<>> => ~HasBreak')
    BY DEF CreateInstance, ConnectInstance, HasBreak
  <1>3. CASE CreateInstance
    BY <1>1, <1>2, <1>3
       DEF Ends, CreateInstance, ServerFrame, TypeOK, BridgeHolds, PipeHolds, pipe, bridge
  <1>4. CASE ConnectInstance
    <2>1. /\ UNCHANGED <<reading, bpc, catalog, unsent, pending, tables, rejects, changes,
                         bridgeDeaths, agentDeaths, announced>>
          /\ spc = "listen" /\ pipeErrors' \in Nat
          /\ \/ /\ link = "open" /\ link' = "open" /\ spc' = "read"
                /\ greeting' = <<>> /\ wire' = wire
             \/ /\ link' = "none" /\ wire' = <<>> /\ spc' = "create"
                /\ greeting' = greeting
      BY <1>4 DEF ConnectInstance, NoPipe, ServerFrame, pipe, bridge, Ends, TypeOK
    <2>2. TypeOK'
      <3>1. /\ greeting' = <<>> \/ greeting' = greeting
            /\ wire' = <<>> \/ wire' = wire
            /\ link' \in {"none", "open", "closed"}
            /\ spc' \in {"create", "read"}
        BY <2>1
      <3>2. greeting' \in Seq(Kinds) /\ Len(greeting') <= 2
        <4>1. CASE greeting' = <<>> BY <4>1
        <4>2. CASE greeting' = greeting BY <4>2 DEF Ends, TypeOK
        <4>3. QED BY <3>1, <4>1, <4>2
      <3>3. wire' \in Seq(Pieces) /\ Len(wire') <= WireCapacity
        <4>1. CASE wire' = <<>> BY <4>1, PipeAssumption DEF PipeAssumption
        <4>2. CASE wire' = wire BY <4>2 DEF Ends, TypeOK
        <4>3. QED BY <3>1, <4>1, <4>2
      <3>4. QED BY <2>1, <3>1, <3>2, <3>3 DEF Ends, TypeOK
    <2>3. BridgeHolds'
      BY <2>1 DEF Ends, BridgeHolds
    <2>4. PipeHolds'
      BY <1>2, <2>1 DEF Ends, PipeHolds
    <2>5. QED BY <2>2, <2>3, <2>4 DEF Ends
  <1>5. QED BY <1>3, <1>4

LEMMA ReadTypes == ASSUME Ends, Read PROVE Ends'
  <1>1. /\ spc = "read"
        /\ UNCHANGED <<link, tables, rejects, greeting, reading, bpc, catalog, unsent,
                       changes, bridgeDeaths, agentDeaths, announced>>
    BY DEF Read, ServerFrame, bridge
  <1>2. CASE \E n \in 1 .. Len(wire) :
               /\ pending' = pending \o SubSeq(wire, 1, n)
               /\ wire' = SubSeq(wire, n + 1, Len(wire))
               /\ spc' = "dispatch"
               /\ pipeErrors' = pipeErrors
    <2>1. PICK n \in 1 .. Len(wire) :
               /\ pending' = pending \o SubSeq(wire, 1, n)
               /\ wire' = SubSeq(wire, n + 1, Len(wire))
      BY <1>2
    <2>2. wire \in Seq(Pieces) /\ pending \in Seq(Pieces) /\ n \in Nat
      BY DEF Ends, TypeOK
    <2>3. SubSeq(wire, 1, n) \in Seq(Pieces)
      BY <2>2
    <2>4. pending' \in Seq(Pieces)
      BY <2>1, <2>2, <2>3
    <2>5. wire' \in Seq(Pieces) /\ Len(wire') <= Len(wire)
      BY <2>1, <2>2
    <2>6. Len(wire') <= WireCapacity
      BY <2>2, <2>5, PipeAssumption DEF Ends, TypeOK, PipeAssumption
    <2>7. QED
      BY <1>1, <1>2, <2>4, <2>5, <2>6 DEF Ends, TypeOK, BridgeHolds, PipeHolds
  <1>3. CASE /\ spc' = "flush" /\ wire' = wire /\ pending' = pending
             /\ pipeErrors' \in Nat
    BY <1>1, <1>3, HasBreakFrame DEF Ends, TypeOK, BridgeHolds, PipeHolds
  <1>4. CASE /\ spc' = "flush" /\ wire' = wire /\ pending' = pending
             /\ pipeErrors' = pipeErrors \/ pipeErrors' = pipeErrors + 1
    <2>1. pipeErrors' \in Nat
      BY <1>4 DEF Ends, TypeOK
    <2>2. QED BY <1>3, <1>4, <2>1
  <1>5. QED BY <1>2, <1>4 DEF Read

LEMMA DispatchTypes == ASSUME Ends, StreamHolds, Dispatch PROVE Ends'
  <1>1. /\ spc = "dispatch"
        /\ UNCHANGED <<link, wire, pipeErrors, reading, bpc, catalog, unsent,
                       changes, bridgeDeaths, agentDeaths, announced>>
    BY DEF Dispatch, ServerFrame, pipe, bridge
  <1>2. pending \in Seq(Pieces) /\ Framed(pending)
    BY Prefixes DEF Ends, TypeOK
  <1>3. CASE HasBreak
    <2>1. /\ Handle(SubSeq(pending, 1, FirstBreak - 1))
          /\ pending' = SubSeq(pending, FirstBreak + 1, Len(pending))
          /\ spc' = spc
      BY <1>3 DEF Dispatch
    <2>2. /\ TablesType(tables') /\ rejects' \in Nat
          /\ greeting' \in Seq(Kinds) /\ Len(greeting') <= 2
      BY <1>2, <1>3, <2>1, FirstLineIsMessage, HandleType DEF Ends
    <2>3. pending' = SubSeq(pending, 4, Len(pending))
      BY <1>2, <1>3, <2>1, FirstLine
    <2>4. pending' \in Seq(Pieces)
      BY <1>2, <2>3
    <2>5. TypeOK'
      BY <1>1, <2>1, <2>2, <2>4 DEF Ends, TypeOK, TablesType
    <2>6. BridgeHolds' /\ PipeHolds'
      BY <1>1, <2>1 DEF Ends, BridgeHolds, PipeHolds
    <2>7. QED BY <2>5, <2>6 DEF Ends
  <1>4. CASE ~HasBreak
    <2>1. spc' = "read" /\ UNCHANGED <<pending, tables, rejects, greeting>>
      BY <1>4 DEF Dispatch
    <2>2. QED
      BY <1>1, <1>4, <2>1, HasBreakFrame DEF Ends, TypeOK, BridgeHolds, PipeHolds
  <1>5. QED BY <1>3, <1>4

LEMMA FlushTypes == ASSUME Ends, StreamHolds, Flush PROVE Ends'
  <1>1. /\ spc = "flush" /\ spc' = "create" /\ pending' = <<>>
        /\ link' = "none" /\ wire' = <<>> /\ Handle(pending)
        /\ UNCHANGED <<pipeErrors, reading, bpc, catalog, unsent,
                       changes, bridgeDeaths, agentDeaths, announced>>
    BY DEF Flush, NoPipe, ServerFrame, bridge
  <1>2. pending \in Seq(Pieces) /\ Framed(pending) /\ Len(pending) <= 2
    BY <1>1, Prefixes, NoWholeLine DEF Ends, TypeOK, PipeHolds
  <1>3. /\ TablesType(tables') /\ rejects' \in Nat
        /\ greeting' \in Seq(Kinds) /\ Len(greeting') <= 2
    BY <1>1, <1>2, LastLine, HandleType DEF Ends
  <1>4. /\ wire' \in Seq(Pieces) /\ Len(wire') <= WireCapacity
        /\ pending' \in Seq(Pieces)
    BY <1>1, PipeAssumption DEF PipeAssumption
  <1>5. TypeOK'
    BY <1>1, <1>3, <1>4 DEF Ends, TypeOK, TablesType
  <1>6. BridgeHolds' /\ PipeHolds'
    BY <1>1 DEF Ends, BridgeHolds, PipeHolds
  <1>7. QED BY <1>5, <1>6 DEF Ends

LEMMA AgentTypes == ASSUME Ends, AgentDies PROVE Ends'
  <1>1. /\ spc' = "create" /\ pending' = <<>> /\ link' = "none" /\ wire' = <<>>
        /\ agentDeaths' = agentDeaths + 1
        /\ UNCHANGED <<reading, bpc, catalog, unsent, tables, changes, bridgeDeaths,
                       rejects, pipeErrors, announced, greeting>>
    BY DEF AgentDies, NoPipe, bridge
  <1>2. /\ wire' \in Seq(Pieces) /\ Len(wire') <= WireCapacity
        /\ pending' \in Seq(Pieces)
    BY <1>1, PipeAssumption DEF PipeAssumption
  <1>3. TypeOK'
    BY <1>1, <1>2 DEF Ends, TypeOK
  <1>4. BridgeHolds' /\ PipeHolds'
    BY <1>1 DEF Ends, BridgeHolds, PipeHolds
  <1>5. QED BY <1>3, <1>4 DEF Ends

LEMMA NextTypes == ASSUME Ends, StreamHolds, [Next]_vars PROVE Ends'
  <1>1. CASE UNCHANGED vars
    BY <1>1, HasBreakFrame DEF vars, Ends, TypeOK, BridgeHolds, PipeHolds
  <1>2. CASE HardwareChanges \/ BridgeStep \/ BridgeDies
    BY <1>2, BridgeTypes, SendTypes, WriteTypes DEF BridgeStep
  <1>3. CASE ServerStep \/ AgentDies
    BY <1>3, CreateTypes, ReadTypes, DispatchTypes, FlushTypes, AgentTypes DEF ServerStep
  <1>4. QED BY <1>1, <1>2, <1>3 DEF Next

-----------------------------------------------------------------------------
(* The stream and the greeting.                                             *)

Orders == HelloThenCatalog /\ Begins /\ BridgeKeepsOrder
All == Ends /\ StreamHolds /\ Orders

LEMMA StreamType ==
    ASSUME Ends
    PROVE  /\ Stream \in Seq(Pieces) /\ Sent \in Seq(Pieces)
           /\ Heard \in Seq(Kinds) /\ Len(Heard) <= 2
           /\ Len(Sent) \in Nat /\ Len(Heard) \in Nat /\ Counted \in Nat
  <1>1. pending \in Seq(Pieces) /\ wire \in Seq(Pieces) /\ unsent \in Seq(Pieces)
    BY DEF Ends, TypeOK
  <1>2. Stream \in Seq(Pieces)
    BY <1>1 DEF Stream
  <1>3. Sent \in Seq(Pieces)
    BY <1>1, <1>2 DEF Sent
  <1>4. Heard \in Seq(Kinds) /\ Len(Heard) <= 2
    <2>1. CASE spc = "listen"
      <3>1. Heard = <<>> BY <2>1 DEF Heard
      <3>2. QED BY <3>1
    <2>2. CASE spc # "listen"
      BY <2>2 DEF Heard, Ends, TypeOK
    <2>3. QED BY <2>1, <2>2
  <1>5. Len(Sent) \in Nat
    BY <1>3
  <1>6. Len(Heard) \in Nat
    BY <1>4
  <1>7. Counted \in Nat
    BY <1>5, <1>6 DEF Counted
  <1>8. QED BY <1>2, <1>3, <1>4, <1>5, <1>6, <1>7

(* What the server holds is in front, what the bridge holds behind.         *)
LEMMA SentStarts ==
    ASSUME Ends
    PROVE  /\ Len(Stream) <= Len(Sent) /\ Len(Stream) \in Nat
           /\ \A i \in 1 .. Len(Stream) : Sent[i] = Stream[i]
           /\ Len(pending) <= Len(Stream) /\ Len(pending) \in Nat
           /\ \A i \in 1 .. Len(pending) : Stream[i] = pending[i]
  BY DEF Ends, TypeOK, Sent, Stream

(* A step that moves nothing on this connection.                            *)
LEMMA Quiet ==
    ASSUME All, link' = link, Sent' = Sent, Heard' = Heard,
           greeting' = greeting \/ greeting' = <<>>,
           link = "open" =>
             \/ bpc' = bpc /\ unsent' = unsent
             \/ bpc = "loop" /\ bpc' = "batch"
    PROVE  StreamHolds' /\ Orders'
  <1>1. StreamHolds'
    BY DEF All, StreamHolds
  <1>2. HelloThenCatalog'
    <2>1. CASE greeting' = greeting BY <2>1 DEF All, Orders, HelloThenCatalog
    <2>2. CASE greeting' = <<>>
      <3>1. Len(greeting') = 0 BY <2>2
      <3>2. QED BY <3>1 DEF HelloThenCatalog
    <2>3. QED BY <2>1, <2>2
  <1>3. Begins'
    BY DEF All, Orders, Begins
  <1>4. Counted' = Counted
    BY DEF Counted
  <1>5. BridgeKeepsOrder'
    BY <1>4 DEF All, Orders, BridgeKeepsOrder
  <1>6. QED BY <1>1, <1>2, <1>3, <1>5 DEF Orders

(* The client's end of the pipe is closed.                                  *)
LEMMA Closed ==
    ASSUME All, link' # "open", Stream' = Stream, Heard' = Heard, greeting' = greeting
    PROVE  StreamHolds' /\ Orders'
  <1>1. Sent' = Stream
    BY DEF Sent
  <1>2. StreamHolds'
    BY <1>1, Prefixes DEF All, StreamHolds
  <1>3. Begins'
    <2>1. Len(Stream) >= 1 => Len(Sent) >= 1 /\ Sent[1] = Stream[1]
      BY SentStarts DEF All
    <2>2. Len(Stream) >= 4 => Len(Sent) >= 4 /\ Sent[4] = Stream[4]
      BY SentStarts DEF All
    <2>3. QED BY <1>1, <2>1, <2>2 DEF All, Orders, Begins
  <1>4. QED BY <1>2, <1>3 DEF All, Orders, HelloThenCatalog, BridgeKeepsOrder

(* The pipe instance is gone.                                               *)
LEMMA Gone ==
    ASSUME link' = "none", pending' = <<>>, wire' = <<>>, HelloThenCatalog'
    PROVE  StreamHolds' /\ Orders'
  <1>1. Len(Sent') = 0
    BY DEF Sent, Stream
  <1>2. QED
    BY <1>1 DEF StreamHolds, Orders, Framed, Begins, BridgeKeepsOrder

LEMMA SameGreeting ==
    ASSUME HelloThenCatalog, greeting' = greeting PROVE HelloThenCatalog'
  BY DEF HelloThenCatalog

LEMMA QuietSteps ==
    ASSUME All,
           HardwareChanges \/ BridgeScan \/ BridgeLoop \/ BridgeBackoff \/ UNCHANGED vars
    PROVE  StreamHolds' /\ Orders'
  <1>1. /\ link' = link /\ unsent' = unsent
        /\ UNCHANGED <<wire, spc, pending, greeting>>
        /\ bpc \notin {"scan", "backoff"} => \/ bpc' = bpc
                                             \/ bpc = "loop" /\ bpc' = "batch"
                                             \/ link # "open"
    BY DEF HardwareChanges, BridgeScan, BridgeLoop, BridgeBackoff, BridgeFrame, vars,
           bridge, pipe, server
  <1>2. link = "open" => bpc \notin {"scan", "backoff"}
    BY DEF All, Ends, PipeHolds
  <1>3. Sent' = Sent /\ Heard' = Heard
    BY <1>1 DEF Sent, Stream, Heard
  <1>4. QED BY <1>1, <1>2, <1>3, Quiet

LEMMA ConnectStep == ASSUME All, BridgeConnect PROVE StreamHolds' /\ Orders'
  <1>1. /\ bpc = "connect"
        /\ UNCHANGED <<unsent, wire, spc, pending, greeting>>
    BY DEF BridgeConnect, BridgeFrame, server
  <1>2. CASE link' = link
    <2>1. link # "open"
      BY <1>1 DEF All, Ends, PipeHolds
    <2>2. Sent' = Sent /\ Heard' = Heard
      BY <1>1, <1>2 DEF Sent, Stream, Heard
    <2>3. QED BY <1>1, <1>2, <2>1, <2>2, Quiet
  <1>3. CASE link' # link
    <2>1. spc = "listen" /\ link = "none" /\ link' = "open" /\ bpc' = "hello"
      BY <1>3 DEF BridgeConnect
    <2>2. Len(Sent') = 0 /\ Len(Heard') = 0
      <3>1. wire' = <<>> /\ pending' = <<>> /\ unsent' = <<>>
        BY <1>1, <2>1 DEF All, Ends, PipeHolds, BridgeHolds
      <3>2. QED BY <1>1, <2>1, <3>1 DEF Sent, Stream, Heard
    <2>3. Counted' = 0
      BY <2>2 DEF Counted
    <2>4. StreamHolds' /\ Begins'
      BY <2>2 DEF StreamHolds, Framed, Begins
    <2>5. HelloThenCatalog'
      BY <1>1, SameGreeting DEF All, Orders
    <2>6. BridgeKeepsOrder'
      BY <2>1, <2>3 DEF BridgeKeepsOrder
    <2>7. QED BY <2>4, <2>5, <2>6 DEF Orders
  <1>4. QED BY <1>2, <1>3

LEMMA DiesStep == ASSUME All, BridgeDies PROVE StreamHolds' /\ Orders'
  <1>1. link' # "open" /\ Stream' = Stream /\ Heard' = Heard /\ greeting' = greeting
    BY DEF BridgeDies, Hangup, server, Stream, Heard
  <1>2. QED BY <1>1, Closed

(* Lines handled and pieces to come.                                        *)
LEMMA Counting ==
    ASSUME NEW h \in Nat, NEW s \in Nat
    PROVE  /\ 3 * h + s = 0 => h = 0 /\ s = 0
           /\ 3 * h + s = 3 => (h = 0 /\ s = 3) \/ (h = 1 /\ s = 0)
           /\ 3 * h + s >= 6 => (h = 0 => s >= 6) /\ (h = 1 => s >= 3)
  OBVIOUS

LEMMA SendStep == ASSUME All, BridgeSend PROVE StreamHolds' /\ Orders'
  <1>1. /\ UNCHANGED <<wire, spc, pending, greeting>>
        /\ bpc \in {"hello", "catalog", "batch", "heartbeat"}
    BY DEF BridgeSend, BridgeFrame, server
  <1>2. Stream' = Stream /\ Heard' = Heard
    BY <1>1 DEF Stream, Heard
  <1>3. CASE link' # "open"
    BY <1>1, <1>2, <1>3, Closed
  <1>4. CASE link' = "open"
    <2>1. PICK m \in Incoming :
            /\ link' = link /\ bpc' = "write" /\ unsent' = Line(m)
            /\ bpc = "hello" => m.kind = "hello"
            /\ bpc = "catalog" => m.kind = "catalog_snapshot"
            /\ bpc \in {"batch", "heartbeat"} => m.kind \in {"sample_batch", "heartbeat"}
      BY <1>4, SendSteps DEF All
    <2>2. link = "open" /\ unsent = <<>>
      BY <1>1, <1>4, <2>1 DEF All, Ends, BridgeHolds
    <2>3. Stream \in Seq(Pieces) /\ Sent \in Seq(Pieces)
      BY StreamType DEF All
    <2>4. Sent = Stream
      BY <2>2, <2>3 DEF Sent
    <2>5. Sent' = Sent \o Line(m)
      BY <1>2, <1>4, <2>1, <2>4 DEF Sent
    <2>6. Framed(Sent) /\ Len(Sent) % 3 = 0
      BY <2>2 DEF All, StreamHolds
    <2>7. /\ Framed(Sent')
          /\ Len(Sent') = Len(Sent) + 3
          /\ Sent'[Len(Sent) + 1] = <<m, "head">>
          /\ \A i \in 1 .. Len(Sent) : Sent'[i] = Sent[i]
      BY <2>3, <2>5, <2>6, FramedLine
    <2>8. Len(Sent) \in Nat /\ Len(Heard) \in Nat
      BY StreamType DEF All
    <2>9. StreamHolds'
      BY <2>6, <2>7, <2>8 DEF StreamHolds
    <2>10. /\ bpc = "hello" => 3 * Len(Heard) + Len(Sent) = 0
           /\ bpc = "catalog" => 3 * Len(Heard) + Len(Sent) = 3
           /\ bpc \in {"batch", "heartbeat"} => 3 * Len(Heard) + Len(Sent) >= 6
      BY <2>2 DEF All, Orders, BridgeKeepsOrder, Counted
    <2>11. Counted' = 3 * Len(Heard) + Len(Sent) + 3
      BY <1>2, <2>7, <2>8 DEF Counted
    <2>12. Head(unsent')[1] = m
      BY <2>1, LineType
    <2>13. BridgeKeepsOrder'
      <3>1. IF m.kind = "hello" THEN Counted' = 3 ELSE Counted' >= 6
        <4>1. CASE bpc = "hello" BY <2>1, <2>10, <2>11, <4>1
        <4>2. CASE bpc = "catalog" BY <2>1, <2>10, <2>11, <4>2
        <4>3. CASE bpc \in {"batch", "heartbeat"}
          BY <2>1, <2>8, <2>10, <2>11, <4>3
        <4>4. QED BY <1>1, <4>1, <4>2, <4>3
      <3>2. QED BY <2>1, <2>12, <3>1 DEF BridgeKeepsOrder
    <2>14. Begins'
      <3>1. Sent'[Len(Sent) + 1][1] = m
        BY <2>7
      <3>2. /\ Len(Heard) = 0 /\ Len(Sent) >= 1 => Sent[1][1].kind = "hello"
            /\ Len(Heard) = 0 /\ Len(Sent) >= 4 => Sent[4][1].kind = "catalog_snapshot"
            /\ Len(Heard) = 1 /\ Len(Sent) >= 1 => Sent[1][1].kind = "catalog_snapshot"
        BY DEF All, Orders, Begins
      <3>3. /\ Len(Sent) >= 1 => Sent'[1] = Sent[1]
            /\ Len(Sent) >= 4 => Sent'[4] = Sent[4]
        BY <2>7, <2>8
      <3>4. CASE bpc = "hello"
        <4>1. Len(Heard) = 0 /\ Len(Sent) = 0 /\ m.kind = "hello"
          BY <2>1, <2>8, <2>10, <3>4
        <4>2. QED BY <1>2, <2>7, <3>1, <4>1 DEF Begins
      <3>5. CASE bpc = "catalog"
        <4>1. /\ m.kind = "catalog_snapshot"
              /\ \/ Len(Heard) = 0 /\ Len(Sent) = 3
                 \/ Len(Heard) = 1 /\ Len(Sent) = 0
          BY <2>1, <2>8, <2>10, <3>5, Counting
        <4>2. CASE Len(Heard) = 0 /\ Len(Sent) = 3
          <5>1. Len(Heard') = 0 /\ Len(Sent') = 6
            BY <1>2, <2>7, <4>2
          <5>2. Sent'[1][1].kind = "hello"
            BY <3>2, <3>3, <4>2
          <5>3. Sent'[4][1].kind = "catalog_snapshot"
            BY <3>1, <4>1, <4>2
          <5>4. QED BY <5>1, <5>2, <5>3 DEF Begins
        <4>3. CASE Len(Heard) = 1 /\ Len(Sent) = 0
          <5>1. Len(Heard') = 1
            BY <1>2, <4>3
          <5>2. Sent'[1][1].kind = "catalog_snapshot"
            BY <3>1, <4>1, <4>3
          <5>3. QED BY <5>1, <5>2 DEF Begins
        <4>4. QED BY <4>1, <4>2, <4>3
      <3>6. CASE bpc \in {"batch", "heartbeat"}
        <4>1. /\ Len(Heard) = 0 => Len(Sent) >= 6
              /\ Len(Heard) = 1 => Len(Sent) >= 3
          BY <2>8, <2>10, <3>6, Counting
        <4>2. QED BY <1>2, <2>8, <3>2, <3>3, <4>1 DEF Begins
      <3>7. QED BY <1>1, <3>4, <3>5, <3>6
    <2>15. HelloThenCatalog'
      BY <1>1, SameGreeting DEF All, Orders
    <2>16. QED BY <2>9, <2>13, <2>14, <2>15 DEF Orders
  <1>5. QED BY <1>3, <1>4

(* A step that leaves the stream as it is, wherever the bridge goes.        *)
LEMMA SameStream ==
    ASSUME All, link' = link, Sent' = Sent, Heard' = Heard, greeting' = greeting
    PROVE  StreamHolds' /\ HelloThenCatalog' /\ Begins' /\ Counted' = Counted
  BY DEF All, Orders, StreamHolds, HelloThenCatalog, Begins, Counted

LEMMA WriteStep == ASSUME All, BridgeWrite PROVE StreamHolds' /\ Orders'
  <1>1. /\ bpc = "write"
        /\ UNCHANGED <<link, spc, pending, greeting>>
    BY WriteSteps DEF All
  <1>2. Heard' = Heard
    BY <1>1 DEF Heard
  <1>3. CASE link # "open"
    <2>1. wire' = wire
      BY <1>3, WriteSteps DEF All
    <2>2. Sent' = Sent
      BY <1>1, <1>3, <2>1 DEF Sent, Stream
    <2>3. QED BY <1>1, <1>2, <1>3, <2>2, Quiet
  <1>4. CASE link = "open"
    <2>1. PICK m \in Incoming :
            /\ unsent \in Rests(m)
            /\ wire' = Append(wire, Head(unsent)) /\ unsent' = Tail(unsent)
            /\ \/ unsent' = <<>> /\ bpc' \in AfterMessage(m.kind)
               \/ unsent' \in Rests(m) /\ bpc' = "write"
      BY <1>4, WriteSteps DEF All
    <2>2. unsent # <<>> /\ Head(unsent)[1] = m
      BY <2>1, RestSteps
    <2>3. Sent' = Sent
      <3>1. (pending \o Append(wire, Head(unsent))) \o Tail(unsent)
                = (pending \o wire) \o unsent
        <4>1. pending \in Seq(Pieces) /\ wire \in Seq(Pieces) /\ unsent \in Seq(Pieces)
          BY DEF All, Ends, TypeOK
        <4>2. QED BY <2>2, <4>1, WriteMoves, Zenon
      <3>2. QED BY <1>1, <1>4, <2>1, <3>1 DEF Sent, Stream
    <2>4. StreamHolds' /\ HelloThenCatalog' /\ Begins' /\ Counted' = Counted
      BY <1>1, <1>2, <2>3, SameStream
    <2>5. IF m.kind = "hello" THEN Counted = 3 ELSE Counted >= 6
      BY <1>1, <1>4, <2>2 DEF All, Orders, BridgeKeepsOrder
    <2>6. CASE unsent' = <<>> /\ bpc' \in AfterMessage(m.kind)
      <3>1. \/ m.kind = "hello" /\ bpc' = "catalog"
            \/ m.kind # "hello" /\ bpc' \in {"loop", "heartbeat"}
        BY <2>6, MessageFields DEF Kinds, AfterMessage
      <3>2. BridgeKeepsOrder'
        BY <2>4, <2>5, <3>1 DEF BridgeKeepsOrder
      <3>3. QED BY <2>4, <3>2 DEF Orders
    <2>7. CASE unsent' \in Rests(m) /\ bpc' = "write"
      <3>1. Head(unsent')[1] = m
        BY <2>7, RestSteps
      <3>2. BridgeKeepsOrder'
        BY <2>4, <2>5, <2>7, <3>1 DEF BridgeKeepsOrder
      <3>3. QED BY <2>4, <3>2 DEF Orders
    <2>8. QED BY <2>1, <2>6, <2>7
  <1>5. QED BY <1>3, <1>4

LEMMA InstanceSteps ==
    ASSUME All, CreateInstance \/ ConnectInstance PROVE StreamHolds' /\ Orders'
  <1>1. CASE CreateInstance
    <2>1. /\ link' = "none" /\ pending' = <<>> /\ wire' = <<>>
          /\ greeting' = greeting
      BY <1>1 DEF CreateInstance, pipe, All, Ends, PipeHolds
    <2>2. QED BY <2>1, Gone, SameGreeting DEF All, Orders
  <1>2. CASE ConnectInstance /\ link' = "open"
    <2>1. /\ spc = "listen" /\ spc' = "read" /\ greeting' = <<>>
          /\ UNCHANGED <<link, wire, pending, bpc, unsent>>
      BY <1>2 DEF ConnectInstance, NoPipe, ServerFrame, pipe, bridge
    <2>2. Sent' = Sent /\ Heard' = Heard
      BY <2>1 DEF Sent, Stream, Heard
    <2>3. QED BY <2>1, <2>2, Quiet
  <1>3. CASE ConnectInstance /\ link' # "open"
    <2>1. /\ link' = "none" /\ wire' = <<>> /\ pending' = pending /\ spc = "listen"
          /\ greeting' = greeting
      BY <1>3 DEF ConnectInstance, NoPipe, pipe
    <2>2. pending = <<>>
      BY <2>1 DEF All, Ends, PipeHolds
    <2>3. QED BY <2>1, <2>2, Gone, SameGreeting DEF All, Orders
  <1>4. QED BY <1>1, <1>2, <1>3

LEMMA ReadKeepsStream == ASSUME Ends, Read PROVE Stream' = Stream
  <1>1. CASE wire' = wire /\ pending' = pending
    BY <1>1 DEF Stream
  <1>2. CASE \E n \in 1 .. Len(wire) :
               /\ pending' = pending \o SubSeq(wire, 1, n)
               /\ wire' = SubSeq(wire, n + 1, Len(wire))
    <2>1. PICK n \in 1 .. Len(wire) :
            /\ pending' = pending \o SubSeq(wire, 1, n)
            /\ wire' = SubSeq(wire, n + 1, Len(wire))
      BY <1>2
    <2>2. (pending \o SubSeq(wire, 1, n)) \o SubSeq(wire, n + 1, Len(wire))
              = pending \o wire
      BY ReadMoves DEF Ends, TypeOK
    <2>3. QED BY <2>1, <2>2 DEF Stream
  <1>3. QED BY <1>1, <1>2 DEF Read

LEMMA ReadStep == ASSUME All, Read PROVE StreamHolds' /\ Orders'
  <1>1. /\ spc = "read" /\ spc' # "listen"
        /\ UNCHANGED <<link, greeting, bpc, unsent>>
    BY DEF Read, ServerFrame, bridge
  <1>2. Sent' = Sent /\ Heard' = Heard
    BY <1>1, ReadKeepsStream DEF All, Sent, Heard
  <1>3. QED BY <1>1, <1>2, Quiet

LEMMA AgentStep == ASSUME All, AgentDies PROVE StreamHolds' /\ Orders'
  BY Gone, SameGreeting DEF AgentDies, NoPipe, All, Orders

-----------------------------------------------------------------------------
(* A line is handled.                                                       *)

LEMMA Appended ==
    ASSUME NEW P, NEW q \in Seq(P), NEW x \in P
    PROVE  /\ Len(Append(q, x)) = Len(q) + 1 /\ Append(q, x)[Len(q) + 1] = x
           /\ \A i \in 1 .. Len(q) : Append(q, x)[i] = q[i]
  OBVIOUS

LEMMA AtLeastThree == ASSUME NEW n \in Nat, n >= 3 PROVE n = 3 \/ n >= 4
  OBVIOUS

LEMMA Dropped ==
    ASSUME NEW P, NEW q \in Seq(P), Len(q) >= 3
    PROVE  /\ Len(SubSeq(q, 4, Len(q))) = Len(q) - 3
           /\ Len(q) >= 4 => SubSeq(q, 4, Len(q))[1] = q[4]
  <1>1. Len(SubSeq(q, 4, Len(q))) = Len(q) - 3
    <2>1. CASE Len(q) = 3
      <3>1. SubSeq(q, 4, Len(q)) = <<>>
        BY <2>1
      <3>2. QED BY <2>1, <3>1
    <2>2. CASE Len(q) >= 4
      BY <2>2
    <2>3. Len(q) \in Nat
      OBVIOUS
    <2>4. Len(q) = 3 \/ Len(q) >= 4
      BY <2>3, AtLeastThree
    <2>5. QED BY <2>1, <2>2, <2>4
  <1>2. ASSUME Len(q) >= 4 PROVE SubSeq(q, 4, Len(q))[1] = q[4]
    BY <1>2
  <1>3. QED BY <1>1, <1>2

LEMMA AtMostTwo == ASSUME NEW n \in Nat, n <= 2 PROVE n = 0 \/ n = 1 \/ n = 2
  OBVIOUS

LEMMA CountingDown ==
    ASSUME NEW h \in Nat, NEW s \in Nat, s >= 3, NEW i \in Nat,
           i = h + 1 \/ (h = 2 /\ i = 2)
    PROVE  \/ 3 * i + (s - 3) = 3 * h + s
           \/ 3 * h + s >= 9 /\ 3 * i + (s - 3) >= 6
  OBVIOUS

LEMMA HandledKind ==
    ASSUME NEW line, IsMessage(line), Handle(line)
    PROVE  greeting' = IF Len(greeting) < 2 THEN Append(greeting, Parsed(line).kind)
                                            ELSE greeting
  BY DEF Handle

(* The greeting grows by what is in front of the stream.                    *)
LEMMA GreetingGrows ==
    ASSUME All, spc # "listen", NEW m, Len(Stream) >= 1, Stream[1][1] = m,
           m.kind \in Kinds,
           greeting' = IF Len(greeting) < 2 THEN Append(greeting, m.kind) ELSE greeting
    PROVE  HelloThenCatalog'
  <1>1. Heard = greeting
    BY DEF Heard
  <1>2. Len(Sent) >= 1 /\ Sent[1][1] = m
    BY SentStarts DEF All
  <1>3. greeting \in Seq(Kinds) /\ Len(greeting) <= 2
    BY DEF All, Ends, TypeOK
  <1>4. \A i \in 1 .. Len(greeting) : greeting[i] = <<"hello", "catalog_snapshot">>[i]
    BY DEF All, Orders, HelloThenCatalog
  <1>5. CASE Len(greeting) = 0
    <2>1. m.kind = "hello"
      BY <1>1, <1>2, <1>5 DEF All, Orders, Begins
    <2>2. Len(greeting') = 1 /\ greeting'[1] = "hello"
      BY <1>3, <1>5, <2>1
    <2>3. QED BY <2>2 DEF HelloThenCatalog
  <1>6. CASE Len(greeting) = 1
    <2>1. m.kind = "catalog_snapshot"
      BY <1>1, <1>2, <1>6 DEF All, Orders, Begins
    <2>2. greeting[1] = "hello"
      BY <1>4, <1>6
    <2>3. /\ Len(greeting') = 2 /\ greeting'[1] = "hello"
          /\ greeting'[2] = "catalog_snapshot"
      <3>1. greeting' = Append(greeting, m.kind)
        BY <1>6
      <3>2. greeting \in Seq(Kinds)
        BY <1>3
      <3>3. /\ Len(Append(greeting, m.kind)) = Len(greeting) + 1
            /\ Append(greeting, m.kind)[Len(greeting) + 1] = m.kind
            /\ \A i \in 1 .. Len(greeting) : Append(greeting, m.kind)[i] = greeting[i]
        BY <3>2, Appended
      <3>4. 1 \in 1 .. Len(greeting)
        BY <1>6
      <3>5. QED BY <1>6, <2>1, <2>2, <3>1, <3>3, <3>4
    <2>4. QED BY <2>3 DEF HelloThenCatalog
  <1>7. CASE Len(greeting) = 2
    BY <1>7, SameGreeting DEF All, Orders
  <1>8. Len(greeting) \in Nat
    BY <1>3
  <1>9. Len(greeting) = 0 \/ Len(greeting) = 1 \/ Len(greeting) = 2
    BY <1>3, <1>8, AtMostTwo
  <1>10. QED BY <1>5, <1>6, <1>7, <1>9

LEMMA FlushStep == ASSUME All, Flush PROVE StreamHolds' /\ Orders'
  <1>1. /\ spc = "flush" /\ pending' = <<>>
        /\ link' = "none" /\ wire' = <<>> /\ Handle(pending)
    BY DEF Flush, NoPipe
  <1>2. pending \in Seq(Pieces) /\ Framed(pending) /\ Len(pending) <= 2
    BY <1>1, Prefixes, NoWholeLine DEF All, Ends, TypeOK, PipeHolds
  <1>3. HelloThenCatalog'
    <2>1. CASE ~IsMessage(pending)
      BY <1>1, <2>1, SameGreeting DEF Handle, All, Orders
    <2>2. CASE IsMessage(pending)
      <3>1. /\ Len(pending) = 2 /\ Parsed(pending) = pending[1][1]
            /\ pending[1][1] \in Incoming
        BY <1>2, <2>2, LastLine
      <3>2. Len(Stream) >= 1 /\ Stream[1] = pending[1]
        BY <3>1, SentStarts DEF All
      <3>3. pending[1][1].kind \in Kinds
        BY <3>1, MessageFields
      <3>4. greeting' = IF Len(greeting) < 2 THEN Append(greeting, pending[1][1].kind)
                                             ELSE greeting
        BY <1>1, <2>2, <3>1, HandledKind
      <3>5. QED BY <1>1, <3>2, <3>3, <3>4, GreetingGrows
    <2>3. QED BY <2>1, <2>2
  <1>4. QED BY <1>1, <1>3, Gone

(* The first line leaves the stream.                                        *)
LEMMA DispatchedStream ==
    ASSUME Ends, StreamHolds, Dispatch, HasBreak
    PROVE  /\ Len(Stream) >= 3
           /\ Stream' = SubSeq(Stream, 4, Len(Stream))
           /\ Sent' = SubSeq(Sent, 4, Len(Sent))
           /\ Stream[1] = pending[1] /\ pending[1][1] \in Incoming
           /\ LET m == pending[1][1] IN
                /\ \/ tables' = Store!Ingested(tables, m)
                   \/ tables' = tables
                /\ greeting' = IF Len(greeting) < 2 THEN Append(greeting, m.kind)
                                                    ELSE greeting
  <1>1. pending \in Seq(Pieces) /\ Framed(pending)
    BY Prefixes DEF Ends, TypeOK
  <1>2. /\ Handle(SubSeq(pending, 1, FirstBreak - 1))
        /\ pending' = SubSeq(pending, 4, Len(pending))
        /\ UNCHANGED <<link, wire, unsent>>
        /\ Len(pending) >= 3
    BY <1>1, FirstLine DEF Dispatch, ServerFrame, pipe, bridge
  <1>3. Len(Stream) >= 3 /\ Stream[1] = pending[1]
    BY <1>2, SentStarts
  <1>4. Stream' = SubSeq(Stream, 4, Len(Stream))
    <2>1. SubSeq(pending \o wire, 4, Len(pending \o wire))
            = SubSeq(pending, 4, Len(pending)) \o wire
      BY <1>2, DropMoves DEF Ends, TypeOK
    <2>2. QED BY <1>2, <2>1 DEF Stream
  <1>5. Sent' = SubSeq(Sent, 4, Len(Sent))
    <2>1. CASE link # "open"
      BY <1>2, <1>4, <2>1 DEF Sent
    <2>2. CASE link = "open"
      <3>1. Stream \in Seq(Pieces) /\ unsent \in Seq(Pieces)
        BY StreamType DEF Ends, TypeOK
      <3>2. SubSeq(Stream \o unsent, 4, Len(Stream \o unsent))
              = SubSeq(Stream, 4, Len(Stream)) \o unsent
        BY <1>3, <3>1, DropMoves, Zenon
      <3>3. QED BY <1>2, <1>4, <2>2, <3>2 DEF Sent
    <2>3. QED BY <2>1, <2>2
  <1> DEFINE line == SubSeq(pending, 1, FirstBreak - 1)
  <1>6. IsMessage(line) /\ Parsed(line) = pending[1][1] /\ pending[1][1] \in Incoming
    BY <1>1, FirstLineIsMessage
  <1> HIDE DEF line
  <1>7. Handle(line)
    BY <1>2 DEF line
  <1>8. \/ tables' = Store!Ingested(tables, pending[1][1])
        \/ tables' = tables
    BY <1>6, <1>7 DEF Handle
  <1>9. greeting' = IF Len(greeting) < 2 THEN Append(greeting, pending[1][1].kind)
                                         ELSE greeting
    BY <1>6, <1>7, HandledKind
  <1>10. QED BY <1>3, <1>4, <1>5, <1>6, <1>8, <1>9

LEMMA DispatchStep == ASSUME All, Dispatch PROVE StreamHolds' /\ Orders'
  <1>1. /\ spc = "dispatch" /\ spc' # "listen"
        /\ UNCHANGED <<link, wire, bpc, unsent>>
    BY DEF Dispatch, ServerFrame, pipe, bridge
  <1>2. CASE ~HasBreak
    <2>1. pending' = pending /\ greeting' = greeting
      BY <1>2 DEF Dispatch
    <2>2. Sent' = Sent /\ Heard' = Heard
      BY <1>1, <2>1 DEF Sent, Stream, Heard
    <2>3. QED BY <1>1, <2>1, <2>2, Quiet
  <1>3. CASE HasBreak
    <2> DEFINE m == pending[1][1]
    <2>1. /\ Len(Stream) >= 3 /\ Stream[1][1] = m /\ m \in Incoming
          /\ Sent' = SubSeq(Sent, 4, Len(Sent))
          /\ greeting' = IF Len(greeting) < 2 THEN Append(greeting, m.kind) ELSE greeting
      BY <1>3, DispatchedStream DEF All
    <2>2. m.kind \in Kinds
      BY <2>1, MessageFields
    <2> HIDE DEF m
    <2>3. HelloThenCatalog'
      <3>1. Len(Stream) >= 1
        BY <2>1, SentStarts DEF All
      <3>2. QED BY <1>1, <2>1, <2>2, <3>1, GreetingGrows
    <2>4. Sent \in Seq(Pieces) /\ Len(Sent) >= 3 /\ Len(Sent) \in Nat
      BY <2>1, StreamType, SentStarts DEF All
    <2>5. /\ Len(Sent') = Len(Sent) - 3
          /\ Len(Sent) >= 4 => Sent'[1] = Sent[4]
      <3>1. /\ Len(SubSeq(Sent, 4, Len(Sent))) = Len(Sent) - 3
            /\ Len(Sent) >= 4 => SubSeq(Sent, 4, Len(Sent))[1] = Sent[4]
        BY <2>4, Dropped, Zenon
      <3>2. QED BY <2>1, <3>1, Zenon
    <2>6. StreamHolds'
      <3>1. Framed(Sent')
        BY <2>1, <2>4, FramedRest DEF All, StreamHolds
      <3>2. link' = "open" => Len(Sent') % 3 = 0
        BY <1>1, <2>4, <2>5 DEF All, StreamHolds
      <3>3. QED BY <3>1, <3>2 DEF StreamHolds
    <2>7. Heard = greeting /\ Heard' = greeting'
      BY <1>1 DEF Heard
    <2>8. greeting \in Seq(Kinds) /\ Len(greeting) <= 2 /\ Len(greeting) \in Nat
      BY <2>7, StreamType DEF All
    <2>9. \/ Len(Heard) < 2 /\ Len(Heard') = Len(Heard) + 1
          \/ Len(Heard) = 2 /\ Len(Heard') = 2
      <3>1. CASE Len(greeting) < 2
        <4>1. greeting' = Append(greeting, m.kind)
          BY <2>1, <3>1
        <4>2. Len(Append(greeting, m.kind)) = Len(greeting) + 1
          BY <2>2, <2>8, Appended, Zenon
        <4>3. QED BY <2>7, <3>1, <4>1, <4>2
      <3>2. CASE ~(Len(greeting) < 2)
        <4>1. greeting' = greeting
          BY <2>1, <3>2
        <4>2. Len(greeting) = 2
          <5>1. Len(greeting) \in Nat /\ Len(greeting) <= 2
            BY <2>8, Zenon
          <5>2. QED BY <3>2, <5>1
        <4>3. QED BY <2>7, <4>1, <4>2
      <3>3. QED BY <3>1, <3>2
    <2>10. Begins'
      <3>1. Len(Heard') = 1 => Len(Heard) = 0
        BY <2>7, <2>8, <2>9
      <3>2. Len(Heard') # 0
        BY <2>7, <2>8, <2>9
      <3>3. Len(Sent') >= 1 => Len(Sent) >= 4
        BY <2>4, <2>5
      <3>4. Len(Heard) = 0 /\ Len(Sent) >= 4 => Sent[4][1].kind = "catalog_snapshot"
        BY DEF All, Orders, Begins
      <3>5. QED BY <2>5, <3>1, <3>2, <3>3, <3>4 DEF Begins
    <2>11. BridgeKeepsOrder'
      <3>1. \/ Counted' = Counted
            \/ Counted >= 9 /\ Counted' >= 6
        <4>1. /\ Len(Heard) \in Nat /\ Len(Sent) \in Nat /\ Len(Sent) >= 3
              /\ Len(Heard') = Len(Heard) + 1 \/ (Len(Heard) = 2 /\ Len(Heard') = 2)
          BY <2>4, <2>7, <2>8, <2>9
        <4>2. Len(Heard') \in Nat
          BY <4>1
        <4>3. \/ 3 * Len(Heard') + (Len(Sent) - 3) = 3 * Len(Heard) + Len(Sent)
              \/ /\ 3 * Len(Heard) + Len(Sent) >= 9
                 /\ 3 * Len(Heard') + (Len(Sent) - 3) >= 6
          BY <4>1, <4>2, CountingDown
        <4>4. QED BY <2>5, <4>3 DEF Counted
      <3>2. Counted \in Nat
        BY StreamType DEF All
      <3>3. QED BY <1>1, <3>1, <3>2 DEF All, Orders, BridgeKeepsOrder
    <2>12. QED BY <2>3, <2>6, <2>10, <2>11 DEF Orders
  <1>4. QED BY <1>2, <1>3

-----------------------------------------------------------------------------
LEMMA InitAll == Init => All
  <1> SUFFICES ASSUME Init PROVE All
    OBVIOUS
  <1>1. TypeOK
    <2>1. /\ catalog = <<>> /\ unsent = <<>> /\ wire = <<>> /\ pending = <<>>
          /\ greeting = <<>> /\ announced = {} /\ reading \in [Sensors -> Readings]
          /\ bpc = "scan" /\ link = "none" /\ spc = "create"
          /\ changes = 0 /\ bridgeDeaths = 0 /\ agentDeaths = 0 /\ rejects = 0
          /\ pipeErrors = 0
      BY DEF Init
    <2>2. TablesType(tables)
      BY EmptyTablesType DEF Init
    <2>3. catalog \in Seq(Sensors)
      BY <2>1
    <2>4. unsent \in Seq(Pieces) /\ wire \in Seq(Pieces) /\ pending \in Seq(Pieces)
      BY <2>1
    <2>5. Len(wire) <= WireCapacity
      BY <2>1, PipeAssumption DEF PipeAssumption
    <2>6. greeting \in Seq(Kinds) /\ Len(greeting) <= 2
      BY <2>1
    <2>7. QED
      BY <2>1, <2>2, <2>3, <2>4, <2>5, <2>6 DEF TypeOK, TablesType, BpcValues
  <1>2. BridgeHolds /\ PipeHolds
    BY DEF Init, BridgeHolds, PipeHolds
  <1>3. Len(Sent) = 0 /\ Len(greeting) = 0 /\ link # "open"
    BY DEF Init, Sent, Stream
  <1>4. StreamHolds /\ Orders
    BY <1>3 DEF StreamHolds, Framed, Orders, HelloThenCatalog, Begins, BridgeKeepsOrder
  <1>5. QED BY <1>1, <1>2, <1>4 DEF All, Ends

LEMMA NextAll == ASSUME All, [Next]_vars PROVE All'
  <1>1. Ends'
    BY NextTypes DEF All
  <1>2. CASE UNCHANGED vars \/ HardwareChanges \/ BridgeStep \/ BridgeDies
    BY <1>1, <1>2, QuietSteps, ConnectStep, DiesStep, SendStep, WriteStep
       DEF BridgeStep, All
  <1>3. CASE ServerStep \/ AgentDies
    BY <1>1, <1>3, InstanceSteps, ReadStep, DispatchStep, FlushStep, AgentStep
       DEF ServerStep, All
  <1>4. QED BY <1>2, <1>3 DEF Next

(* The inductive invariant: both ends are where their code leaves them, the *)
(* pieces between them are lines in order, and the lines of a connection    *)
(* begin with hello and the catalogue.                                      *)
THEOREM Invariance == Spec => []All
  BY InitAll, NextAll, PTL DEF Spec

(* Every variable of the bridge, of the pipe and of the server has its type *)
(* in every behaviour, the pipe never holds more than it buffers, and the   *)
(* rows of the store are rows.                                              *)
THEOREM PipeTypes == Spec => []TypeOK
  <1>1. All => TypeOK
    BY DEF All, Ends
  <1>2. QED BY <1>1, Invariance, PTL

(* The first line that the agent handles on a connection is hello, the      *)
(* second is the catalogue, whoever died in the connections before.         *)
THEOREM GreetingComesFirst == Spec => []HelloThenCatalog
  <1>1. All => HelloThenCatalog
    BY DEF All, Orders
  <1>2. QED BY <1>1, Invariance, PTL

(* A read that waits has handed on every whole line, and waits for the rest *)
(* of a line from its first byte on.                                        *)
THEOREM NothingWholeWaits == Spec => []ReaderWaitsForRest
  <1>1. ASSUME All PROVE ReaderWaitsForRest
    <2> SUFFICES ASSUME spc = "read"
                 PROVE  ~HasBreak /\ (pending # <<>> => pending[1][2] = "head")
      BY DEF ReaderWaitsForRest
    <2>1. ~HasBreak
      BY <1>1 DEF All, Ends, PipeHolds
    <2>2. Framed(pending) /\ pending \in Seq(Pieces)
      BY <1>1, Prefixes DEF All, Ends, TypeOK
    <2>3. ASSUME pending # <<>> PROVE pending[1][2] = "head"
      <3>1. 1 \in 1 .. Len(pending)
        BY <2>2, <2>3
      <3>2. QED BY <2>2, <3>1 DEF Framed
    <2>4. QED BY <2>1, <2>3
  <1>2. QED BY <1>1, Invariance, PTL

-----------------------------------------------------------------------------
(* The messages in a stream of pieces.                                      *)

MessagesIn(q) == [k \in 1 .. (Len(q) + 2) \div 3 |-> q[3 * k - 2][1]]

LEMMA InFlightIs == InFlight = MessagesIn(Stream)
  BY DEF InFlight, MessagesIn

LEMMA Thirds ==
    ASSUME NEW n \in Nat
    PROVE  /\ (n + 2) \div 3 \in Nat
           /\ n % 3 = 0 => (n + 1 + 2) \div 3 = (n + 2) \div 3 + 1
           /\ n % 3 = 0 => 3 * ((n + 2) \div 3 + 1) - 2 = n + 1
           /\ n % 3 # 0 => (n + 1 + 2) \div 3 = (n + 2) \div 3
           /\ n >= 3 => (n - 3 + 2) \div 3 = (n + 2) \div 3 - 1
           /\ n >= 3 => (n + 2) \div 3 >= 1
           /\ \A k \in 1 .. (n + 2) \div 3 : 3 * k - 2 \in 1 .. n
  OBVIOUS

LEMMA MessagesType ==
    ASSUME NEW q \in Seq(Pieces)
    PROVE  /\ MessagesIn(q) \in Seq(Incoming)
           /\ Len(MessagesIn(q)) = (Len(q) + 2) \div 3
           /\ \A k \in 1 .. (Len(q) + 2) \div 3 : MessagesIn(q)[k] = q[3 * k - 2][1]
  <1> DEFINE n == (Len(q) + 2) \div 3
  <1>1. Len(q) \in Nat
    OBVIOUS
  <1>2. n \in Nat /\ \A k \in 1 .. n : 3 * k - 2 \in 1 .. Len(q)
    BY <1>1, Thirds
  <1>3. \A k \in 1 .. n : q[3 * k - 2][1] \in Incoming
    BY <1>2, PieceParts
  <1>4. MessagesIn(q) = [k \in 1 .. n |-> q[3 * k - 2][1]]
    BY DEF MessagesIn
  <1> HIDE DEF n
  <1>5. MessagesIn(q) \in [1 .. n -> Incoming]
    BY <1>3, <1>4
  <1>6. MessagesIn(q) \in Seq(Incoming) /\ Len(MessagesIn(q)) = n
    BY <1>2, <1>5
  <1>7. QED BY <1>4, <1>6 DEF n

LEMMA NoMessages == ASSUME NEW q, q = <<>> PROVE MessagesIn(q) = <<>>
  <1>1. (Len(q) + 2) \div 3 = 0
    OBVIOUS
  <1>2. QED BY <1>1 DEF MessagesIn

(* A head begins a message; the pieces after it add none.                   *)
LEMMA OneMorePiece ==
    ASSUME NEW q \in Seq(Pieces), NEW x \in Pieces
    PROVE  /\ Len(q) % 3 = 0 =>
                MessagesIn(Append(q, x)) = Append(MessagesIn(q), x[1])
           /\ Len(q) % 3 # 0 => MessagesIn(Append(q, x)) = MessagesIn(q)
  <1> DEFINE r == Append(q, x)
             n == (Len(q) + 2) \div 3
  <1>1. r \in Seq(Pieces) /\ Len(r) = Len(q) + 1 /\ r[Len(q) + 1] = x
        /\ \A i \in 1 .. Len(q) : r[i] = q[i]
    OBVIOUS
  <1> HIDE DEF r
  <1>2. Len(q) \in Nat
    OBVIOUS
  <1>3. n \in Nat /\ \A k \in 1 .. n : 3 * k - 2 \in 1 .. Len(q)
    BY <1>2, Thirds
  <1>4. /\ MessagesIn(q) \in Seq(Incoming) /\ Len(MessagesIn(q)) = n
        /\ \A k \in 1 .. n : MessagesIn(q)[k] = q[3 * k - 2][1]
    BY MessagesType
  <1>5. /\ MessagesIn(r) \in Seq(Incoming)
        /\ Len(MessagesIn(r)) = (Len(r) + 2) \div 3
        /\ \A k \in 1 .. (Len(r) + 2) \div 3 : MessagesIn(r)[k] = r[3 * k - 2][1]
    BY <1>1, MessagesType
  <1>6. x[1] \in Incoming
    BY DEF Pieces
  <1> HIDE DEF n
  <1>7. ASSUME Len(q) % 3 = 0
        PROVE  MessagesIn(r) = Append(MessagesIn(q), x[1])
    <2>1. (Len(r) + 2) \div 3 = n + 1 /\ 3 * (n + 1) - 2 = Len(q) + 1
      BY <1>1, <1>2, <1>7, Thirds DEF n
    <2>2. MessagesIn(r)[n + 1] = x[1]
      <3>1. n + 1 \in 1 .. n + 1
        BY <1>3
      <3>2. MessagesIn(r)[n + 1] = r[3 * (n + 1) - 2][1]
        BY <1>5, <2>1, <3>1
      <3>3. QED BY <1>1, <2>1, <3>2
    <2>3. ASSUME NEW k \in 1 .. n PROVE MessagesIn(r)[k] = MessagesIn(q)[k]
      <3>1. k \in 1 .. n + 1
        BY <1>3
      <3>2. MessagesIn(r)[k] = r[3 * k - 2][1]
        BY <1>5, <2>1, <3>1
      <3>3. r[3 * k - 2] = q[3 * k - 2]
        BY <1>1, <1>3
      <3>4. QED BY <1>4, <3>2, <3>3
    <2> DEFINE a == Append(MessagesIn(q), x[1])
    <2>4. a \in Seq(Incoming) /\ Len(a) = n + 1 /\ a[n + 1] = x[1]
          /\ \A k \in 1 .. n : a[k] = MessagesIn(q)[k]
      BY <1>4, <1>6, Appended, AppendProperties
    <2> HIDE DEF a
    <2>5. \A k \in 1 .. n + 1 : MessagesIn(r)[k] = a[k]
      BY <1>3, <2>2, <2>3, <2>4
    <2>6. MessagesIn(r) = a
      BY <1>5, <2>1, <2>4, <2>5, SeqEqual
    <2>7. QED BY <2>6 DEF a
  <1>8. ASSUME Len(q) % 3 # 0 PROVE MessagesIn(r) = MessagesIn(q)
    <2>1. (Len(r) + 2) \div 3 = n
      BY <1>1, <1>2, <1>8, Thirds DEF n
    <2>2. ASSUME NEW k \in 1 .. n PROVE MessagesIn(r)[k] = MessagesIn(q)[k]
      <3>1. MessagesIn(r)[k] = r[3 * k - 2][1]
        BY <1>5, <2>1
      <3>2. r[3 * k - 2] = q[3 * k - 2]
        BY <1>1, <1>3
      <3>3. QED BY <1>4, <3>1, <3>2
    <2>3. QED BY <1>4, <1>5, <2>1, <2>2, SeqEqual
  <1>9. QED BY <1>7, <1>8 DEF r

(* The first message leaves with the first line.                            *)
LEMMA FirstMessage ==
    ASSUME NEW q \in Seq(Pieces), Len(q) >= 1
    PROVE  MessagesIn(q) # <<>> /\ Head(MessagesIn(q)) = q[1][1]
  <1>1. Len(q) \in Nat
    OBVIOUS
  <1>2. (Len(q) + 2) \div 3 >= 1 /\ (Len(q) + 2) \div 3 \in Nat
    BY <1>1
  <1>3. /\ Len(MessagesIn(q)) >= 1
        /\ MessagesIn(q)[1] = q[3 * 1 - 2][1]
        /\ MessagesIn(q) \in Seq(Incoming)
    BY <1>2, MessagesType
  <1>4. QED BY <1>3

LEMMA FirstGone ==
    ASSUME NEW q \in Seq(Pieces), Len(q) >= 3
    PROVE  MessagesIn(SubSeq(q, 4, Len(q))) = Tail(MessagesIn(q))
  <1> DEFINE r == SubSeq(q, 4, Len(q))
             n == (Len(q) + 2) \div 3
  <1>1. Len(q) \in Nat /\ Len(q) >= 1
    OBVIOUS
  <1>2. r \in Seq(Pieces)
    OBVIOUS
  <1>3. Len(r) = Len(q) - 3
    BY Dropped
  <1>4. \A i \in 1 .. Len(q) - 3 : r[i] = q[i + 3]
    OBVIOUS
  <1> HIDE DEF r
  <1>5. n \in Nat /\ n >= 1 /\ (Len(r) + 2) \div 3 = n - 1
        /\ \A k \in 1 .. n : 3 * k - 2 \in 1 .. Len(q)
    BY <1>1, <1>3, Thirds
  <1>6. /\ MessagesIn(q) \in Seq(Incoming) /\ Len(MessagesIn(q)) = n
        /\ \A k \in 1 .. n : MessagesIn(q)[k] = q[3 * k - 2][1]
    BY MessagesType
  <1>7. /\ MessagesIn(r) \in Seq(Incoming) /\ Len(MessagesIn(r)) = n - 1
        /\ \A k \in 1 .. n - 1 : MessagesIn(r)[k] = r[3 * k - 2][1]
    BY <1>2, <1>5, MessagesType
  <1>8. MessagesIn(q) # <<>>
    BY <1>1, FirstMessage
  <1> DEFINE t == Tail(MessagesIn(q))
  <1>9. /\ t \in Seq(Incoming) /\ Len(t) = n - 1
        /\ \A k \in 1 .. n - 1 : t[k] = MessagesIn(q)[k + 1]
    BY <1>6, <1>8, HeadTailProperties
  <1> HIDE DEF n, t
  <1>10. ASSUME NEW k \in 1 .. n - 1 PROVE MessagesIn(r)[k] = t[k]
    <2>1. k + 1 \in 1 .. n /\ k \in Nat /\ k >= 1
      BY <1>5
    <2>2. 3 * (k + 1) - 2 \in 1 .. Len(q) /\ 3 * (k + 1) - 2 = (3 * k - 2) + 3
      BY <1>5, <2>1
    <2>3. 3 * k - 2 \in 1 .. Len(q) - 3
      BY <1>1, <2>1, <2>2
    <2>4. r[3 * k - 2] = q[3 * (k + 1) - 2]
      BY <1>4, <2>2, <2>3
    <2>5. QED BY <1>6, <1>7, <1>9, <2>1, <2>4
  <1>11. MessagesIn(r) = t
    BY <1>7, <1>9, <1>10, SeqEqual
  <1>12. QED BY <1>11 DEF r, t

-----------------------------------------------------------------------------
(* Every step is one of OrderedDelivery, or does not show there.            *)

LEMMA SameStore ==
    /\ \A t, m : Delivery!Store!Ingested(t, m) = Store!Ingested(t, m)
    /\ Delivery!Store!EmptyTables = Store!EmptyTables
  BY DEF Delivery!Store!Ingested, Store!Ingested, Delivery!Store!UpsertMachineFor,
         Store!UpsertMachineFor, Delivery!Store!UpsertMachine, Store!UpsertMachine,
         Delivery!Store!SeenTime, Store!SeenTime, Delivery!Store!Later, Store!Later,
         Delivery!Store!UpsertCollectorFor, Store!UpsertCollectorFor,
         Delivery!Store!UpsertCollector, Store!UpsertCollector,
         Delivery!Store!CollectorStatus, Store!CollectorStatus,
         Delivery!Store!HelloTime, Store!HelloTime, Delivery!Store!SampleTime,
         Store!SampleTime, Delivery!Store!CatalogWith, Store!CatalogWith,
         Delivery!Store!UpsertCatalogSensor, Store!UpsertCatalogSensor,
         Delivery!Store!SamplesWith, Store!SamplesWith, Delivery!Store!IsCatalogued,
         Store!IsCatalogued, Delivery!Store!RowsOf, Store!RowsOf,
         Delivery!Store!EmptyTables, Store!EmptyTables, Delivery!Store!NoSeen,
         Store!NoSeen, Delivery!Store!NoCollector, Store!NoCollector,
         Delivery!Store!NoTime, Store!NoTime

LEMMA StreamStays ==
    ASSUME Stream' = Stream, tables' = tables
    PROVE  UNCHANGED <<InFlight, tables>>
  BY InFlightIs DEF InFlight

LEMMA StreamLost ==
    ASSUME pending' = <<>>, wire' = <<>>, tables' = tables PROVE Delivery!Lose
  <1>1. Stream' = <<>>
    BY DEF Stream
  <1>2. Len(Stream') = 0
    BY <1>1
  <1>3. (Len(Stream') + 2) \div 3 = 0
    BY <1>2
  <1>4. InFlight' = <<>>
    BY <1>3 DEF InFlight
  <1>5. QED BY <1>4 DEF Delivery!Lose

LEMMA WriteSends ==
    ASSUME All, BridgeWrite
    PROVE  Delivery!Send \/ UNCHANGED <<InFlight, tables>>
  <1>1. /\ bpc = "write"
        /\ UNCHANGED <<link, spc, pending, tables>>
    BY WriteSteps DEF All
  <1>2. CASE link # "open"
    <2>1. wire' = wire
      BY <1>2, WriteSteps DEF All
    <2>2. Stream' = Stream
      BY <1>1, <2>1 DEF Stream
    <2>3. QED BY <1>1, <2>2, StreamStays
  <1>3. CASE link = "open"
    <2>1. PICK m \in Incoming :
            /\ unsent \in Rests(m)
            /\ wire' = Append(wire, Head(unsent)) /\ unsent' = Tail(unsent)
      BY <1>3, WriteSteps DEF All
    <2>2. Head(unsent) \in Pieces /\ Head(unsent)[1] = m
      BY <2>1, RestSteps
    <2>3. Stream \in Seq(Pieces) /\ Len(Stream) \in Nat
      BY StreamType, SentStarts DEF All
    <2>4. Stream' = Append(Stream, Head(unsent))
      <3>1. pending \o Append(wire, Head(unsent)) = Append(pending \o wire, Head(unsent))
        <4>1. pending \in Seq(Pieces)
          BY DEF All, Ends, TypeOK
        <4>2. wire \in Seq(Pieces)
          BY DEF All, Ends, TypeOK
        <4>3. QED BY <2>2, <4>1, <4>2, AppendMoves
      <3>2. QED BY <1>1, <2>1, <3>1 DEF Stream
    <2>5. /\ Len(Stream) % 3 = 0 => InFlight' = Append(InFlight, m)
          /\ Len(Stream) % 3 # 0 => InFlight' = InFlight
      <3>1. InFlight' = MessagesIn(Stream')
        BY DEF InFlight, MessagesIn
      <3>2. /\ Len(Stream) % 3 = 0 =>
                 MessagesIn(Append(Stream, Head(unsent)))
                     = Append(MessagesIn(Stream), Head(unsent)[1])
            /\ Len(Stream) % 3 # 0 =>
                 MessagesIn(Append(Stream, Head(unsent))) = MessagesIn(Stream)
        BY <2>2, <2>3, OneMorePiece
      <3>3. QED BY <2>2, <2>4, <3>1, <3>2, InFlightIs
    <2>6. CASE Len(Stream) % 3 = 0
      BY <1>1, <2>5, <2>6 DEF Delivery!Send
    <2>7. CASE Len(Stream) % 3 # 0
      BY <1>1, <2>5, <2>7
    <2>8. QED BY <2>6, <2>7
  <1>4. QED BY <1>2, <1>3

LEMMA DispatchDelivers ==
    ASSUME All, Dispatch
    PROVE  Delivery!Deliver \/ UNCHANGED <<InFlight, tables>>
  <1>1. wire' = wire
    BY DEF Dispatch, pipe
  <1>2. CASE ~HasBreak
    <2>1. pending' = pending /\ tables' = tables
      BY <1>2 DEF Dispatch
    <2>2. Stream' = Stream
      BY <1>1, <2>1 DEF Stream
    <2>3. QED BY <2>1, <2>2, StreamStays
  <1>3. CASE HasBreak
    <2> DEFINE m == pending[1][1]
    <2>1. /\ Len(Stream) >= 3 /\ Stream[1][1] = m /\ m \in Incoming
          /\ Stream' = SubSeq(Stream, 4, Len(Stream))
          /\ \/ tables' = Store!Ingested(tables, m)
             \/ tables' = tables
      BY <1>3, DispatchedStream DEF All
    <2> HIDE DEF m
    <2>2. Stream \in Seq(Pieces) /\ Len(Stream) \in Nat
      BY StreamType, SentStarts DEF All
    <2>3. Len(Stream) >= 1
      BY <2>1, <2>2
    <2>4. InFlight' = MessagesIn(Stream')
      BY DEF InFlight, MessagesIn
    <2>5. InFlight' = Tail(InFlight)
      BY <2>1, <2>2, <2>4, FirstGone, InFlightIs
    <2>6. InFlight # <<>> /\ Head(InFlight) = m
      BY <2>1, <2>2, <2>3, FirstMessage, InFlightIs
    <2>7. QED BY <2>1, <2>5, <2>6, SameStore DEF Delivery!Deliver
  <1>4. QED BY <1>2, <1>3

LEMMA FlushDelivers ==
    ASSUME All, Flush PROVE Delivery!Deliver \/ Delivery!Lose
  <1>1. /\ spc = "flush" /\ pending' = <<>> /\ wire' = <<>> /\ Handle(pending)
    BY DEF Flush, NoPipe
  <1>2. pending \in Seq(Pieces) /\ Framed(pending) /\ Len(pending) <= 2
    BY <1>1, Prefixes, NoWholeLine DEF All, Ends, TypeOK, PipeHolds
  <1>3. CASE tables' = tables
    BY <1>1, <1>3, StreamLost
  <1>4. CASE tables' # tables
    <2>1. IsMessage(pending) /\ tables' = Store!Ingested(tables, Parsed(pending))
      BY <1>1, <1>4 DEF Handle
    <2>2. Len(pending) = 2 /\ Parsed(pending) = pending[1][1]
      BY <1>2, <2>1, LastLine
    <2>3. Stream \in Seq(Pieces) /\ Len(Stream) >= 1 /\ Stream[1] = pending[1]
      BY <2>2, StreamType, SentStarts DEF All
    <2>4. InFlight # <<>> /\ Head(InFlight) = Parsed(pending)
      BY <2>2, <2>3, FirstMessage, InFlightIs
    <2>5. InFlight' = <<>>
      <3>1. Stream' = <<>>
        BY <1>1 DEF Stream
      <3>2. MessagesIn(Stream') = <<>>
        BY <3>1, NoMessages
      <3>3. QED BY <3>2 DEF InFlight, MessagesIn
    <2>6. QED BY <2>1, <2>4, <2>5, SameStore DEF Delivery!Deliver
  <1>5. QED BY <1>3, <1>4

LEMMA NextDelivers ==
    ASSUME All, [Next]_vars PROVE [Delivery!Next]_<<InFlight, tables>>
  <1>1. CASE UNCHANGED vars \/ HardwareChanges \/ BridgeScan \/ BridgeConnect
             \/ BridgeSend \/ BridgeLoop \/ BridgeBackoff \/ BridgeDies \/ CreateInstance
    <2>1. wire' = wire /\ pending' = pending /\ tables' = tables
      BY <1>1 DEF vars, HardwareChanges, BridgeScan, BridgeConnect, BridgeSend,
                  BridgeLoop, BridgeBackoff, BridgeDies, CreateInstance, BridgeFrame,
                  pipe, server
    <2>2. Stream' = Stream
      BY <2>1 DEF Stream
    <2>3. QED BY <2>1, <2>2, StreamStays
  <1>2. CASE BridgeWrite
    BY <1>2, WriteSends DEF Delivery!Next
  <1>3. CASE ConnectInstance
    <2>1. /\ pending' = pending /\ tables' = tables
          /\ wire' = wire \/ wire' = <<>>
          /\ spc = "listen"
      BY <1>3 DEF ConnectInstance, NoPipe, pipe
    <2>2. pending' = <<>>
      BY <2>1 DEF All, Ends, PipeHolds
    <2>3. CASE wire' = wire
      <3>1. Stream' = Stream
        BY <2>1, <2>3 DEF Stream
      <3>2. QED BY <2>1, <3>1, StreamStays
    <2>4. CASE wire' = <<>>
      BY <2>1, <2>2, <2>4, StreamLost DEF Delivery!Next
    <2>5. QED BY <2>1, <2>3, <2>4
  <1>4. CASE Read
    <2>1. tables' = tables
      BY <1>4 DEF Read
    <2>2. QED BY <1>4, <2>1, ReadKeepsStream, StreamStays DEF All
  <1>5. CASE Dispatch
    BY <1>5, DispatchDelivers DEF Delivery!Next
  <1>6. CASE Flush
    BY <1>6, FlushDelivers DEF Delivery!Next
  <1>7. CASE AgentDies
    <2>1. pending' = <<>> /\ wire' = <<>> /\ tables' = tables
      BY <1>7 DEF AgentDies, NoPipe
    <2>2. QED BY <2>1, StreamLost DEF Delivery!Next
  <1>8. QED
    BY <1>1, <1>2, <1>3, <1>4, <1>5, <1>6, <1>7 DEF Next, BridgeStep, ServerStep

(* However the bytes are cut into writes and reads and whoever dies or      *)
(* hangs up, the store is handed the messages of a connection one at a      *)
(* time, each once and in order, and only the last ones of it are lost.     *)
THEOREM DeliversInOrder == Spec => DeliverySpec
  <1>1. Init => Delivery!Init
    <2>1. Init => Stream = <<>> /\ tables = Store!EmptyTables
      BY DEF Init, Stream
    <2>2. QED
      BY <2>1, NoMessages, InFlightIs, SameStore DEF Delivery!Init
  <1>2. QED
    BY <1>1, NextDelivers, Invariance, PTL DEF Spec, DeliverySpec, Delivery!Spec
=============================================================================
