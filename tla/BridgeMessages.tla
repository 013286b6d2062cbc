--------------------------- MODULE BridgeMessages ---------------------------
(* One line of the pipe: what librehw_bridge builds from the hardware it     *)
(* finds (Program.cs, Models.cs) and what ParseBridgeMessage makes of it     *)
(* (bridge_message_parser.cpp).  The pipe takes lines from any client, so a  *)
(* line may also be one of the bridge's with a field missing or of another   *)
(* kind: a bridge of another version, or another program.                    *)
(*                                                                           *)
(* A JSON value is its kind and what is in it; the text of a string is the   *)
(* tuple of what it names; "time" names a stamp of BridgeTime.                *)
EXTENDS BridgeTime, SequencesExt

CONSTANTS
    Machines,      \* hardware trees, as LibreHardwareMonitor shows them
    MessageDates,  \* bound: the days on which lines are sent
    Uptimes,       \* what the bridge may report as its uptime
    IntMax,        \* the largest int
    Oddities,      \* what another client may write in place of a field
    AlteredMachines,  \* bound: the machines whose lines are altered
    NoValue        \* a reading that is null

(* ParseBridgeMessage returned false: nothing was read.                      *)
Refused == <<>>

(* The hardware of a machine is numbered, what is in other hardware after    *)
(* it; parts[h] lists the hardware in h, and parts[0] that of the computer.  *)
(* A sensor is its hardware and its place in the list of that hardware.      *)
Reading == [value : Int \cup {NoValue}, min : Int \cup {NoValue},
            max : Int \cup {NoValue}, hidden : BOOLEAN]
Parts(m) == UNION {{h} \X DOMAIN m.parts[h] : h \in DOMAIN m.parts}
Sensors(m) == UNION {{h} \X DOMAIN m.sensors[h] : h \in DOMAIN m.sensors}

(* All hardware is in one place, and the sensors are counted with an int.    *)
ASSUME MachinesAssumption ==
    \A m \in Machines :
        /\ m.sensors \in Seq(Seq(Reading))
        /\ DOMAIN m.parts = 0 .. Len(m.sensors)
        /\ \A h \in DOMAIN m.parts : m.parts[h] \in Seq(h + 1 .. Len(m.sensors))
        /\ \A h \in DOMAIN m.sensors : \E p \in Parts(m) :
               \A q \in Parts(m) : m.parts[q[1]][q[2]] = h <=> q = p
        /\ Cardinality(Sensors(m)) <= IntMax
ASSUME IntMaxAssumption == IntMax \in Nat /\ Uptimes \subseteq Nat

VARIABLES
    origin,    \* what the bridge built the line from, or NoValue
    altered,   \* which of its fields another client wrote differently
    line,      \* the JSON of the line
    received   \* the BridgeMessage the agent got out of it, or Refused

wire == <<origin, altered, line, received>>
wireVars == <<vars, wire>>

-----------------------------------------------------------------------------
(* JSON, as cJSON shows it.                                                  *)
Null == [kind |-> "null"]
Missing == [kind |-> "missing"]
Str(text) == [kind |-> "string", text |-> text]
Num(n) == [kind |-> "number", number |-> n]
Bool(b) == [kind |-> IF b THEN "true" ELSE "false"]
Arr(items) == [kind |-> "array", items |-> items]
Obj(fields) == [kind |-> "object", fields |-> fields]
Nullable(x) == IF x = NoValue THEN Null ELSE Num(x)

Item(json, key) ==
    IF json.kind = "object" /\ key \in DOMAIN json.fields THEN json.fields[key]
    ELSE Missing

(* The fields of f and those of g.                                           *)
f ++ g == [k \in DOMAIN f \cup DOMAIN g |-> IF k \in DOMAIN f THEN f[k] ELSE g[k]]

-----------------------------------------------------------------------------
(* The bridge.                                                               *)
OwnSensors(m, h) == IF h = 0 THEN <<>> ELSE [i \in DOMAIN m.sensors[h] |-> <<h, i>>]

SensorsOf(m) ==   \* of every hardware its sensors, then those of its parts
    LET walk[h \in DOMAIN m.parts] ==
            OwnSensors(m, h)
              \o FlattenSeq([k \in DOMAIN m.parts[h] |-> walk[m.parts[h][k]]])
    IN walk[0]

HardwareTexts == {"hardware_uid", "hardware_path", "hardware_name", "hardware_type"}
SensorTexts == {"sensor_uid", "sensor_path", "sensor_name", "sensor_type", "unit"}

CatalogEntry(m, s) ==
    Obj([k \in HardwareTexts |-> Str(<<k, s[1]>>)]
          ++ [k \in SensorTexts |-> Str(<<k>> \o s)]
          ++ [sensor_index      |-> Num(s[2]),
              is_default_hidden |-> Bool(m.sensors[s[1]][s[2]].hidden),
              properties        |-> Obj(<<>>)])

BuildCatalog(m) ==
    LET all == SensorsOf(m)
    IN Arr([n \in DOMAIN all |-> CatalogEntry(m, all[n])])

SampleEntry(m, s) ==
    LET sensor == m.sensors[s[1]][s[2]]
    IN Obj([sensor_uid |-> Str(<<"sensor_uid">> \o s),
            value |-> Num(sensor.value), quality |-> Str(<<"ok">>),
            min |-> Nullable(sensor.min), max |-> Nullable(sensor.max)])

HasValue(m, s) == m.sensors[s[1]][s[2]].value # NoValue

CollectSamples(m) ==
    LET all == SensorsOf(m)
        taken == FlattenSeq([n \in DOMAIN all |->
                                IF HasValue(m, all[n]) THEN <<all[n]>> ELSE <<>>])
    IN Arr([n \in DOMAIN taken |-> SampleEntry(m, taken[n])])

(* ToString("O") of a UTC DateTimeOffset.                                    *)
UtcText(time) ==
    Str(<<"time", [date |-> today, time |-> time, fraction |-> <<9, 9, 9, 9, 9, 9, 9>>,
                   zone |-> [sign |-> 1, hour |-> 0, minute |-> 0]]>>)

Body(o) ==
    CASE o.type = "hello" ->
           [bridge_version |-> Str(<<"0.1.0">>), hostname |-> Str(<<"host">>),
            pid |-> Num(1), sample_interval_ms |-> Num(2),
            capabilities |-> LET Distinct(texts) == Arr(SetToSeq({Str(t) : t \in texts})) IN
                Obj([hardware_types |->
                        Distinct({<<"hardware_type", s[1]>> : s \in ToSet(SensorsOf(o.machine))}),
                     sensor_types |->
                        Distinct({<<"sensor_type">> \o s : s \in ToSet(SensorsOf(o.machine))})])]
      [] o.type = "catalog_snapshot" -> [sensors |-> BuildCatalog(o.machine)]
      [] o.type = "sample_batch" ->
           [sample_time_utc |-> UtcText(o.sampled), samples |-> CollectSamples(o.machine)]
      [] o.type = "heartbeat" ->
           [status |-> Str(<<"ok">>), uptime_s |-> Num(o.uptime),
            catalog_count |-> Num(Len(SensorsOf(o.machine)))]

Build(o) ==
    Obj([type |-> Str(<<o.type>>), schema_version |-> Num(1), source |-> Str(<<"source">>),
         machine_id |-> Str(<<"machine_id">>), sent_at_utc |-> UtcText(o.sent)] ++ Body(o))

-----------------------------------------------------------------------------
(* The parser.                                                               *)
RequireStrings(json, keys) == \A k \in keys : Item(json, k).kind = "string"
RequireNumbers(json, keys) == \A k \in keys : Item(json, k).kind = "number"
RequireTime(json, key) ==
    /\ Item(json, key).kind = "string"
    /\ Item(json, key).text[1] = "time"

(* cJSON keeps a number as a double and as an int that stops at its ends.    *)
ValueInt(n) == IF n > IntMax THEN IntMax ELSE IF n < -IntMax - 1 THEN -IntMax - 1 ELSE n

GetStrings(json, keys) == [k \in keys |-> Item(json, k).text]
GetInts(json, keys) == [k \in keys |-> ValueInt(Item(json, k).number)]
GetInt64s(json, keys) == [k \in keys |-> Item(json, k).number]
GetTimes(json, keys) == [k \in keys |-> ParseIso8601UtcMs(Item(json, k).text[2])]

(* The text of a value, which is empty for one that is not there.            *)
JsonCompactString(item) == IF item = Missing THEN <<>> ELSE <<item>>

EnvelopeGiven(root) ==
    /\ RequireNumbers(root, {"schema_version"})
    /\ RequireStrings(root, {"source", "machine_id"})
    /\ RequireTime(root, "sent_at_utc")

ParseEnvelope(root) ==
    GetInts(root, {"schema_version"}) ++ GetStrings(root, {"source", "machine_id"})
        ++ GetTimes(root, {"sent_at_utc"})

ParseHello(root) ==
    LET texts == {"bridge_version", "hostname"}
        ints == {"pid", "sample_interval_ms"}
    IN IF EnvelopeGiven(root) /\ RequireStrings(root, texts) /\ RequireNumbers(root, ints)
       THEN ParseEnvelope(root) ++ GetStrings(root, texts) ++ GetInts(root, ints)
              ++ [capabilities |-> JsonCompactString(Item(root, "capabilities"))]
       ELSE Refused

CatalogSensorGiven(item) ==
    /\ item.kind = "object"
    /\ RequireStrings(item, HardwareTexts \cup SensorTexts)
    /\ RequireNumbers(item, {"sensor_index"})

CatalogSensor(item) ==
    GetStrings(item, HardwareTexts \cup SensorTexts) ++ GetInts(item, {"sensor_index"})
        ++ [is_default_hidden |-> Item(item, "is_default_hidden").kind = "true",
            properties |-> JsonCompactString(Item(item, "properties"))]

(* Mutant: an entry that is not as it should be is left out.                 *)
ParseCatalogSnapshotSkipping(root) ==
    LET sensors == Item(root, "sensors")
    IN IF EnvelopeGiven(root) /\ sensors.kind = "array"
       THEN LET good == SelectSeq(sensors.items, CatalogSensorGiven)
            IN ParseEnvelope(root)
                 ++ [sensors |-> [i \in DOMAIN good |-> CatalogSensor(good[i])]]
       ELSE Refused

ParseCatalogSnapshot(root) ==
    LET sensors == Item(root, "sensors")
    IN IF /\ EnvelopeGiven(root)
          /\ sensors.kind = "array"
          /\ \A i \in DOMAIN sensors.items : CatalogSensorGiven(sensors.items[i])
       THEN ParseEnvelope(root)
              ++ [sensors |-> [i \in DOMAIN sensors.items |-> CatalogSensor(sensors.items[i])]]
       ELSE Refused

(* Mutant: min and max required like the value.                              *)
SensorSampleGivenWhole(item) ==
    /\ item.kind = "object"
    /\ RequireStrings(item, {"sensor_uid", "quality"})
    /\ RequireNumbers(item, {"value", "min", "max"})

SensorSampleGiven(item) ==
    /\ item.kind = "object"
    /\ RequireStrings(item, {"sensor_uid", "quality"})
    /\ RequireNumbers(item, {"value"})

SensorSample(item) ==
    LET Optional(key) == IF Item(item, key).kind = "number" THEN Item(item, key).number
                         ELSE NoValue
    IN GetStrings(item, {"sensor_uid", "quality"})
         ++ [value |-> Item(item, "value").number,
             min |-> Optional("min"), max |-> Optional("max")]

ParseSampleBatch(root) ==
    LET samples == Item(root, "samples")
    IN IF /\ EnvelopeGiven(root)
          /\ RequireTime(root, "sample_time_utc")
          /\ samples.kind = "array"
          /\ \A i \in DOMAIN samples.items : SensorSampleGiven(samples.items[i])
       THEN ParseEnvelope(root) ++ GetTimes(root, {"sample_time_utc"})
              ++ [samples |-> [i \in DOMAIN samples.items |-> SensorSample(samples.items[i])]]
       ELSE Refused

ParseHeartbeat(root) ==
    IF /\ EnvelopeGiven(root)
       /\ RequireStrings(root, {"status"})
       /\ RequireNumbers(root, {"uptime_s", "catalog_count"})
    THEN ParseEnvelope(root) ++ GetStrings(root, {"status"})
           ++ GetInt64s(root, {"uptime_s"}) ++ GetInts(root, {"catalog_count"})
    ELSE Refused

ParseBridgeMessage(root) ==
    LET type == Item(root, "type")
    IN CASE type = Str(<<"hello">>)            -> ParseHello(root)
         [] type = Str(<<"catalog_snapshot">>) -> ParseCatalogSnapshot(root)
         [] type = Str(<<"sample_batch">>)     -> ParseSampleBatch(root)
         [] type = Str(<<"heartbeat">>)        -> ParseHeartbeat(root)
         [] OTHER                          -> Refused

-----------------------------------------------------------------------------
NoAlteration == [key |-> "", entry |-> 0]

WireInit ==
    /\ Init
    /\ origin = NoValue /\ altered = NoAlteration /\ line = Missing /\ received = Refused

Calendar == NextDay /\ origin' = NoValue /\ altered' = NoAlteration
              /\ line' = Missing /\ received' = Refused
Clock == origin = NoValue /\ Stamp /\ UNCHANGED wire

(* The bridge writes a line and the agent parses it.                         *)
BridgeSends ==
    /\ today \in MessageDates
    /\ stamp = NoStamp /\ origin = NoValue
    /\ \E m \in Machines, uptime \in Uptimes, sampled, sent \in Times,
          type \in {"hello", "catalog_snapshot", "sample_batch", "heartbeat"} :
           /\ type # "sample_batch" => sampled = sent
           /\ type # "heartbeat" => uptime = 0
           /\ origin' = [type |-> type, machine |-> m, uptime |-> uptime,
                         sampled |-> sampled, sent |-> sent]
    /\ line' = Build(origin')
    /\ received' = ParseBridgeMessage(line')
    /\ UNCHANGED <<vars, altered>>

(* The value of a key of an object written differently, or not at all.       *)
Alterations(json, key) ==
    {Obj([k \in DOMAIN json.fields \ {key} |-> json.fields[k]])}
        \cup {Obj([json.fields EXCEPT ![key] = odd]) : odd \in Oddities}

ListOf(o) == IF o.type = "sample_batch" THEN "samples" ELSE "sensors"

Entries(json, list) == IF Item(json, list) = Missing THEN <<>> ELSE Item(json, list).items

(* The same line from another client, one field away from the bridge's: a    *)
(* field of the line, or of an entry of its list.                            *)
OtherClientSends ==
    /\ origin # NoValue /\ altered = NoAlteration
    /\ origin.machine \in AlteredMachines
    /\ LET list == ListOf(origin)
           entries == Entries(line, list)
       IN \/ \E key \in DOMAIN line.fields :
               /\ altered' = [key |-> key, entry |-> 0]
               /\ line' \in Alterations(line, key)
          \/ \E n \in DOMAIN entries : \E key \in DOMAIN entries[n].fields :
               /\ altered' = [key |-> key, entry |-> n]
               /\ \E item \in Alterations(entries[n], key) :
                    line' = Obj([line.fields EXCEPT
                                    ![list] = Arr([entries EXCEPT ![n] = item])])
    /\ received' = ParseBridgeMessage(line')
    /\ UNCHANGED <<vars, origin>>

WireNext == Calendar \/ Clock \/ BridgeSends \/ OtherClientSends

WireSpec == WireInit /\ [][WireNext]_wireVars

-----------------------------------------------------------------------------
At(time) == [day |-> days,
             ms |-> (time.hour * 3600 + time.minute * 60 + time.second) * 1000 + 999]

(* What the agent is to know of a sensor of machine m.                       *)
Catalogued(row, m, s) ==
    /\ row.sensor_uid = <<"sensor_uid">> \o s
    /\ row.hardware_uid = <<"hardware_uid", s[1]>>
    /\ row.sensor_index = s[2]
    /\ row.is_default_hidden = m.sensors[s[1]][s[2]].hidden

Sampled(row, m, s) ==
    LET sensor == m.sensors[s[1]][s[2]]
    IN /\ row.sensor_uid = <<"sensor_uid">> \o s
       /\ row.value = sensor.value /\ row.min = sensor.min /\ row.max = sensor.max

(* Whatever hardware the bridge finds, the agent takes the line and          *)
(* understands it: a catalogue lists every sensor once, under the hardware   *)
(* it belongs to, however deep; a batch has exactly the sensors with a value *)
(* and says min and max only where there are some; the sampling and the      *)
(* sending time are not mixed up; an uptime beyond an int is kept            *)
(* (BuildCatalog, CollectSamplesRecursive, ParseBridgeMessage).              *)
MeansWhatWasBuilt ==
    (origin # NoValue /\ altered = NoAlteration) =>
        LET m == origin.machine
            valued == {s \in Sensors(m) : HasValue(m, s)}
        IN /\ received # Refused
           /\ received.sent_at_utc = At(origin.sent)
           /\ origin.type = "catalog_snapshot" =>
                /\ Len(received.sensors) = Cardinality(Sensors(m))
                /\ \A s \in Sensors(m) : \E n \in DOMAIN received.sensors :
                       Catalogued(received.sensors[n], m, s)
           /\ origin.type = "sample_batch" =>
                /\ received.sample_time_utc = At(origin.sampled)
                /\ Len(received.samples) = Cardinality(valued)
                /\ \A s \in valued : \E n \in DOMAIN received.samples :
                       Sampled(received.samples[n], m, s)
           /\ origin.type = "heartbeat" =>
                /\ received.uptime_s = origin.uptime
                /\ received.catalog_count = Cardinality(Sensors(m))

Optional == {"capabilities", "is_default_hidden", "properties", "min", "max"}

(* A line one field away from the bridge's is refused as a whole or is read  *)
(* like the bridge's in everything but that field: a bad entry neither       *)
(* vanishes nor moves the others, a field of one entry is never taken from   *)
(* another, and what is optional may be missing or odd (the early returns of *)
(* the Parse functions).                                                     *)
OneFieldAway ==
    altered # NoAlteration =>
        LET right == ParseBridgeMessage(Build(origin))
            list == ListOf(origin)
        IN /\ altered.key \in Optional => received # Refused
           /\ received # Refused =>
                /\ DOMAIN received = DOMAIN right
                /\ \A k \in DOMAIN right \ {altered.key, list} : received[k] = right[k]
                /\ (list \in DOMAIN right /\ altered.key # list) =>
                     /\ Len(received[list]) = Len(right[list])
                     /\ \A n \in DOMAIN right[list] : \A k \in DOMAIN right[list][n] :
                            \/ altered = [key |-> k, entry |-> n]
                            \/ received[list][n][k] = right[list][n][k]
=============================================================================
