---------------------------- MODULE ChannelSetup ----------------------------
(***************************************************************************)
(* How a channel is put together: its points and their transformation, the *)
(* addresses they are given, and the parameters of its driver.             *)
(***************************************************************************)
EXTENDS Integers, Sequences, FiniteSets, TLC

-----------------------------------------------------------------------------
(*------------------------------ ChannelBuild -----------------------------*)
(***************************************************************************)
(* From the rows of the configuration database to a channel that reads and *)
(* writes: the loader reads the four point tables of a channel, the        *)
(* converters give each point its address and its transform, the creators  *)
(* of the protocols build the driver and the store, and the driver's polls *)
(* and writes apply what was built.  A mapping is "none", "bad" (it does   *)
(* not parse) or the address of a cell of the device, a bit or a number.   *)
(***************************************************************************)

CONSTANTS CbProtos,     \* the protocols create_channel_by_protocol is asked for
          CbTables,     \* the rows: sets of [type, id, map, scale, off, rev]
          CbBits,       \* the cells of the device that hold a bit
          CbCells,      \* all cells
          CbWrites      \* bound: commands

VARIABLES cbProto,    \* the channel's protocol
          cbRows,     \* the rows of its four point tables
          cbPhase,    \* "new", "ready", "refused"
          cbDriver,   \* the points of the driver
          cbStore,    \* the points the store was told of
          cbDevice,   \* cell -> value
          cbBuffer,   \* the virtual channel's buffer: point id -> <<type, value>>
          cbSeen,     \* <<type, id>> -> the value last delivered
          cbLast,     \* {} or {the last command accepted}
          cbLeft

cbVars == <<cbProto, cbRows, cbPhase, cbDriver, cbStore, cbDevice, cbBuffer, cbSeen, cbLast, cbLeft>>

CbKnown == {"virtual", "modbus_tcp", "modbus_rtu", "gpio", "can", "voltage_485", "iec61850"}
CbModbus == {"modbus_tcp", "modbus_rtu"}
CbTypes == {"T", "S", "C", "A"}

CbInit ==
  /\ cbProto \in CbProtos /\ cbRows \in CbTables /\ cbPhase = "new"
  /\ cbDriver = {} /\ cbStore = {}
  /\ cbDevice \in [CbCells -> {0, 1}] /\ cbBuffer = <<>> /\ cbSeen = <<>>
  /\ cbLast = {} /\ cbLeft = CbWrites

(* ------------------------- loading and converting ---------------------- *)

(* load_runtime_channel_points: signals and controls have no scale, the    *)
(* reverse of an adjustment is not carried over.                           *)
CbLoaded(r) ==
  [type |-> r.type, id |-> r.id, map |-> r.map,
   scale |-> IF r.type \in {"T", "A"} THEN r.scale ELSE 1,
   off |-> IF r.type \in {"T", "A"} THEN r.off ELSE 0,
   rev |-> IF r.type = "A" THEN FALSE ELSE r.rev]
CbRuntime == {CbLoaded(r) : r \in cbRows}

(* convert_points: a point without an address is left out. *)
CbMapped(points) == {p \in points : p.map \notin {"none", "bad"}}
CbOfType(points, types) == {p \in points : p.type \in types}

(* convert_to_point_configs: the address is the point's own id. *)
CbToPointConfigs == {[p EXCEPT !.map = "own"] : p \in CbRuntime}

(* convert_to_modbus_point_configs, the points of an IEC 61850 channel *)
CbToModbus == CbMapped(CbRuntime)
CbToIec61850 == CbMapped(CbRuntime)

(* convert_to_can_point_configs: scale and offset are the mapping's, which *)
(* are one and zero here, and there is no reverse.                         *)
CbToCan == {[p EXCEPT !.scale = 1, !.off = 0, !.rev = FALSE] : p \in CbMapped(CbRuntime)}

(* create_gpio_channel: inputs from signals, outputs from controls.        *)
CbToGpio == CbMapped(CbOfType(CbRuntime, {"S", "C"}))
(* create_voltage_485_channel: telemetry and signals, no transform.        *)
CbToVoltage485 ==
  {[p EXCEPT !.scale = 1, !.off = 0, !.rev = FALSE] : p \in CbMapped(CbOfType(CbRuntime, {"T", "S"}))}

(* The creators: the driver's points and the store's. *)
CbVirtualChannel == cbDriver' = CbToPointConfigs /\ cbStore' = CbToPointConfigs
CbModbusChannel == cbDriver' = CbToModbus /\ cbStore' = CbToModbus
CbGpioChannel == cbDriver' = CbToGpio /\ cbStore' = CbToPointConfigs
CbCanChannel == cbDriver' = CbToCan /\ cbStore' = CbMapped(CbRuntime)
CbVoltage485Channel == cbDriver' = CbToVoltage485 /\ cbStore' = CbToPointConfigs
CbIec61850Channel == cbDriver' = CbToIec61850 /\ cbStore' = CbToIec61850

(* create_channel, create_channel_by_protocol *)
CbCreate ==
  /\ cbPhase = "new"
  /\ \/ cbProto = "virtual" /\ CbVirtualChannel
     \/ cbProto \in CbModbus /\ CbModbusChannel
     \/ cbProto = "gpio" /\ CbGpioChannel
     \/ cbProto = "can" /\ CbCanChannel
     \/ cbProto = "voltage_485" /\ CbVoltage485Channel
     \/ cbProto = "iec61850" /\ CbIec61850Channel
     \/ cbProto \notin CbKnown /\ UNCHANGED <<cbDriver, cbStore>>
  /\ cbPhase' = IF cbProto \in CbKnown THEN "ready" ELSE "refused"
  /\ UNCHANGED <<cbProto, cbRows, cbDevice, cbBuffer, cbSeen, cbLast, cbLeft>>

(* ------------------------------- traffic ------------------------------- *)

(* TransformConfig::apply, apply_bool, reverse_apply *)
CbApply(p, v) == v * p.scale + p.off
CbApplyBool(p, b) == IF p.rev THEN 1 - b ELSE b
CbReverseApply(p, v) == (v - p.off) \div p.scale

(* apply_transform: a bit is inverted, a number scaled.  A GPIO line, a    *)
(* CAN signal and a 485 register go through the same points as built.      *)
CbDelivered(p) == IF p.map \in CbBits \/ cbProto = "gpio" THEN CbApplyBool(p, cbDevice[p.map]) ELSE CbApply(p, cbDevice[p.map])

CbPoll ==
  /\ cbPhase = "ready"
  /\ cbSeen' = IF cbProto = "virtual"
               THEN [k \in {<<cbBuffer[i][1], i>> : i \in DOMAIN cbBuffer} |-> cbBuffer[k[2]][2]] @@ cbSeen
               ELSE [k \in {<<p.type, p.id>> : p \in CbOfType(cbDriver, {"T", "S"})} |->
                       CbDelivered(CHOOSE p \in cbDriver : <<p.type, p.id>> = k)] @@ cbSeen
  /\ UNCHANGED <<cbProto, cbRows, cbPhase, cbDriver, cbStore, cbDevice, cbBuffer, cbLast, cbLeft>>

(* A control: Modbus and GPIO invert a reversed one, IEC 61850 sends it as *)
(* it is, the virtual channel keeps it by its id.                          *)
CbWriteControl(p, b) ==
  /\ \/ cbProto \in CbModbus \cup {"gpio"} /\ cbDevice' = [cbDevice EXCEPT ![p.map] = CbApplyBool(p, b)]
        /\ UNCHANGED cbBuffer
     \/ cbProto = "iec61850" /\ cbDevice' = [cbDevice EXCEPT ![p.map] = b] /\ UNCHANGED cbBuffer
     \/ cbProto = "virtual" /\ cbBuffer' = (p.id :> <<"C", b>>) @@ cbBuffer /\ UNCHANGED cbDevice

(* An adjustment: Modbus writes the raw value, which a scale of zero has   *)
(* not; IEC 61850 writes the value itself.                                 *)
CbWriteAdjustment(p, v) ==
  /\ \/ /\ cbProto \in CbModbus /\ p.scale # 0 /\ UNCHANGED cbBuffer
        /\ cbDevice' = [cbDevice EXCEPT ![p.map] = CbReverseApply(p, v)]
     \/ cbProto = "iec61850" /\ cbDevice' = [cbDevice EXCEPT ![p.map] = v] /\ UNCHANGED cbBuffer
     \/ cbProto = "virtual" /\ cbBuffer' = (p.id :> <<"A", v>>) @@ cbBuffer /\ UNCHANGED cbDevice

CbCommand ==
  /\ cbPhase = "ready" /\ cbLeft > 0
  /\ \E p \in cbDriver, v \in {0, 1, 5} :
       /\ \/ p.type = "C" /\ v \in {0, 1} /\ CbWriteControl(p, v)
          \/ p.type = "A" /\ (p.map \notin CbBits \/ cbProto = "virtual")
             /\ (p.scale # 0 => (v - p.off) % p.scale = 0) /\ CbWriteAdjustment(p, v)
       /\ cbLast' = {[type |-> p.type, id |-> p.id, value |-> v]}
  /\ cbLeft' = cbLeft - 1
  /\ UNCHANGED <<cbProto, cbRows, cbPhase, cbDriver, cbStore, cbSeen>>

CbNext == CbCreate \/ CbPoll \/ CbCommand
CbSpec == CbInit /\ [][CbNext]_cbVars

(* ----------------------------- properties ------------------------------ *)

CbRow(type, id) == CHOOSE r \in cbRows : r.type = type /\ r.id = id

(* Each row with a mapping that parses becomes one point of the driver, of *)
(* its own type and address, and no other row does (GPIO takes signals and *)
(* controls, the 485 protocol telemetry and signals).                      *)
CbOnePointPerRow ==
  (cbPhase = "ready" /\ cbProto # "virtual") =>
    LET types == CASE cbProto = "gpio" -> {"S", "C"} [] cbProto = "voltage_485" -> {"T", "S"}
                   [] OTHER -> CbTypes
    IN  /\ {<<p.type, p.id, p.map>> : p \in cbDriver}
             = {<<r.type, r.id, r.map>> : r \in CbMapped(CbOfType(cbRows, types))}
        /\ Cardinality(cbDriver) = Cardinality(CbMapped(CbOfType(cbRows, types)))
        /\ {<<p.type, p.id>> : p \in cbDriver} \subseteq {<<p.type, p.id>> : p \in cbStore}

(* What was commanded is what is read back: after a command to a control   *)
(* or an adjustment, a poll of a point that reads the same cell with the   *)
(* same transform delivers the commanded value, on Modbus and on GPIO.     *)
CbLoopback ==
  [][\A c \in cbLast : \A p \in cbDriver :
       LET w == CbRow(c.type, c.id)
           r == CbRow(p.type, p.id)
       IN  (/\ cbProto \in CbModbus \cup {"gpio"} /\ cbSeen' # cbSeen /\ cbDevice = cbDevice'
            /\ p.type = (IF c.type = "C" THEN "S" ELSE "T") /\ r.map = w.map
            /\ r.scale = w.scale /\ r.off = w.off /\ r.rev = w.rev)
           => cbSeen'[<<p.type, p.id>>] = c.value]_cbVars

-----------------------------------------------------------------------------
(*------------------------------ PointAddress -----------------------------*)
(***************************************************************************)
(* The shorthand addresses of points: how the parsers of the gateway turn  *)
(* the text of a PointDef into the fields a driver polls.  A text is the   *)
(* sequence of the parts its separator makes; a part is a number in one of *)
(* the notations, or a word.                                               *)
(***************************************************************************)

CONSTANTS PaProtocols,  \* protocols to try
          PaParts,      \* parts a text may consist of
          PaMaxParts    \* bound: parts of a text

VARIABLE paCase         \* [protocol, sep, parts, notify]

\* A part: the notation, the number it writes, its digits, blanks around it.
PaDec(n) == [form |-> "dec", n |-> n, digits |-> 1, word |-> "", pad |-> FALSE]
PaHex(n) == [form |-> "hex", n |-> n, digits |-> 1, word |-> "", pad |-> FALSE]
PaWord(w) == [form |-> "word", n |-> 0, digits |-> 0, word |-> w, pad |-> FALSE]
PaNs(n) == [form |-> "ns", n |-> n, digits |-> 1, word |-> "", pad |-> FALSE]
PaId(w) == [form |-> "id", n |-> 0, digits |-> 0, word |-> w, pad |-> FALSE]
PaEmpty == PaWord("")

PaNo == [ok |-> FALSE, address |-> <<>>]
PaYes(a) == [ok |-> TRUE, address |-> a]

PaU8 == 255
PaU16 == 65535
PaU32 == 2147483647   \* the numbers of an instance stay below it

\* split on a separator: a text written with another one is a single part.
PaSplit(t, sep) ==
    IF Len(t.parts) = 1 \/ t.sep = sep THEN t.parts ELSE <<PaWord("joined")>>

\* splitn(3, _) and split_once: the last piece keeps what follows.
PaAtMost(parts, n) ==
    IF Len(parts) <= n THEN parts
    ELSE [i \in 1..n |-> IF i < n THEN parts[i] ELSE PaWord("joined")]

\* parse_field: str::parse takes neither blanks nor another radix.
PaField(f, max) == f.form = "dec" /\ ~ f.pad /\ f.n <= max

\* parse_zigbee_u64, _u16, _u8, parse_matter_id, parse_can_id: trimmed, with
\* or without 0x.
PaTrimmed(f, max) == f.form \in {"dec", "hex"} /\ f.n <= max

PaModbus(t) ==
    LET p == PaAtMost(PaSplit(t, ":"), 3)
    IN IF /\ Len(p) >= 2 /\ PaField(p[1], PaU8) /\ PaField(p[2], PaU16)
          /\ (Len(p) = 3 => PaField(p[3], PaU8))
       THEN PaYes(<<p[1].n, p[2].n, IF Len(p) = 3 THEN p[3].n ELSE 3>>)
       ELSE PaNo

PaIec104(t) ==
    LET p == PaAtMost(PaSplit(t, ":"), 2)
        plain == Len(p) = 1 \/ p[2] = PaEmpty
    IN IF PaField(p[1], PaU32) /\ (~ plain => PaField(p[2], PaU8))
       THEN PaYes(<<p[1].n, IF plain THEN 0 ELSE p[2].n, 1>>)
       ELSE PaNo

\* The namespace ends at the first ';', the rest is the identifier.
PaOpcUa(t) ==
    LET p == PaSplit(t, ";")
        named == p[1].form = "ns"
        rest == IF named THEN Tail(p) ELSE p
    IN IF /\ named => Len(p) > 1 /\ p[1].n <= PaU16
          /\ rest # <<>> /\ rest[1].form = "id"
       THEN PaYes(<<IF named THEN p[1].n ELSE 0, rest>>)
       ELSE PaNo

PaCan(t) ==
    LET p == PaSplit(t, ":")
    IN IF /\ Len(p) = 4 /\ PaTrimmed(p[1], PaU32)
          /\ PaField(p[2], 7) /\ PaField(p[3], 7)
          /\ PaField(p[4], 64) /\ p[4].n # 0
       THEN PaYes(<<p[1].n, p[2].n, p[3].n, p[4].n>>)
       ELSE PaNo

PaDirection(w) ==
    IF w \in {"input", "in", "di"} THEN "input"
    ELSE IF w \in {"output", "out", "do"} THEN "output" ELSE "none"

\* pin, chip:pin or chip:pin:direction.
PaGpio(t) ==
    LET p == PaAtMost(PaSplit(t, ":"), 3)
        pin == IF Len(p) = 1 THEN p[1] ELSE p[2]
        dir == IF Len(p) = 3 THEN PaDirection(p[3].word) ELSE "input"
    IN IF PaField(pin, PaU32) /\ dir # "none"
       THEN PaYes(<<IF Len(p) = 1 THEN PaWord("gpiochip0") ELSE p[1], pin.n, dir>>)
       ELSE PaNo

\* Eight digits, read as hexadecimal with or without 0x.
PaDl645(t) ==
    IF Len(t.parts) = 1 /\ t.parts[1].form \in {"dec", "hex"} /\ t.parts[1].digits = 8
    THEN PaYes(<<t.parts[1].n>>) ELSE PaNo

\* service/characteristic, with ":notify" at the end.
PaBle(t) ==
    LET p == PaSplit(t, "/")
    IN IF Len(p) >= 2 /\ p[1] # PaEmpty /\ Tail(p) # <<PaEmpty>>
       THEN PaYes(<<[p[1] EXCEPT !.pad = FALSE],
                    [i \in 1..(Len(p) - 1) |-> [p[i + 1] EXCEPT !.pad = FALSE]],
                    t.notify>>)
       ELSE PaNo

PaZigbee(t) ==
    LET p == PaSplit(t, "/")
    IN IF /\ Len(p) = 4 /\ PaTrimmed(p[1], PaU32) /\ PaTrimmed(p[2], PaU8)
          /\ PaTrimmed(p[3], PaU16) /\ PaTrimmed(p[4], PaU16)
       THEN PaYes(<<p[1].n, p[2].n, p[3].n, p[4].n>>)
       ELSE PaNo

PaMatter(t) ==
    LET p == PaSplit(t, "/")
    IN IF Len(p) = 3 /\ PaField(p[1], PaU16) /\ PaTrimmed(p[2], PaU32)
          /\ PaTrimmed(p[3], PaU32)
       THEN PaYes(<<p[1].n, p[2].n, p[3].n>>)
       ELSE PaNo

\* domain:item, or domain/item with dots made '$'.
PaIec61850(t) ==
    IF Len(t.parts) >= 2 /\ t.sep \in {":", "/"}
    THEN PaYes(<<[t.parts[1] EXCEPT !.pad = FALSE], Tail(t.parts)>>) ELSE PaNo

PaVirtual(t) == PaYes(<<t.sep, t.parts>>)

PaParse(t) ==
    CASE t.protocol = "modbus" -> PaModbus(t)
      [] t.protocol = "iec104" -> PaIec104(t)
      [] t.protocol = "opcua" -> PaOpcUa(t)
      [] t.protocol = "can" -> PaCan(t)
      [] t.protocol = "virtual" -> PaVirtual(t)
      [] t.protocol = "gpio" -> PaGpio(t)
      [] t.protocol = "dl645" -> PaDl645(t)
      [] t.protocol = "ble" -> PaBle(t)
      [] t.protocol = "zigbee" -> PaZigbee(t)
      [] t.protocol = "matter" -> PaMatter(t)
      [] t.protocol = "iec61850" -> PaIec61850(t)
      [] OTHER -> PaNo

PaInit ==
    \E p \in PaProtocols, n \in 1..PaMaxParts :
        \E s \in IF p = "opcua" THEN {";"} ELSE {":", "/"}, t \in [1..n -> PaParts] :
            \E y \in {FALSE, p = "ble"} :
                paCase = [protocol |-> p, sep |-> s, parts |-> t, notify |-> y]

PaNext == UNCHANGED paCase
PaSpec == PaInit /\ [][PaNext]_paCase

\* ------------------------------------------------------------------
\* Properties
\* ------------------------------------------------------------------
\* Two parts that mean the same: the same number, the same direction, an
\* absent type.
PaSame(f, g) ==
    \/ [f EXCEPT !.pad = FALSE] = [g EXCEPT !.pad = FALSE]
    \/ {f.form, g.form} \subseteq {"dec", "hex"} /\ f.n = g.n
    \/ PaDirection(f.word) = PaDirection(g.word) /\ PaDirection(f.word) # "none"
    \/ {f, g} = {PaEmpty, PaDec(0)}

\* No parser drops a part of what it accepts: a text that differs in one
\* part names another address or is refused, unless the two parts mean the
\* same (the splitn of parse_modbus_address and its neighbours).
PaNothingIgnored ==
    LET a == PaParse(paCase)
    IN a.ok =>
        \A i \in DOMAIN paCase.parts, f \in PaParts :
            LET b == PaParse([paCase EXCEPT !.parts[i] = f])
            IN b.ok /\ b.address = a.address => PaSame(f, paCase.parts[i])

-----------------------------------------------------------------------------
(*------------------------------ DriverForms ------------------------------*)
(***************************************************************************)
(* The parameter forms of the drivers against the parameters the channels  *)
(* are made from.  Every driver describes its parameters for the editor    *)
(* (DriverMetadata: name, default, required); a channel is created from    *)
(* the filled-in form by one of two readers: the gateway factory, which    *)
(* deserialises the driver's own ParamsConfig, and the channel manager,    *)
(* whose create_* functions look single keys up.  A form and a reader are  *)
(* functions from parameter names to defaults; DfMust marks a parameter    *)
(* that has none.  Default build: modbus, gpio, voltage_485, iec61850, can.*)
(***************************************************************************)

CONSTANTS DfDrivers,   \* the drivers whose forms are filled in
          DfPaths      \* the readers: subset of {"gateway", "manager"}

VARIABLES dfCase,      \* [driver, path, given]: the form as it was filled in
          dfMade       \* [status, with]: whether a channel was made, and what it runs with

dfVars == <<dfCase, dfMade>>

DfMust == "must"
DfNone == "none"
DfRefused == [status |-> "refused", with |-> <<>>]

\* ------------------------------------------------------------------
\* The forms the drivers publish.
\* ------------------------------------------------------------------
DfGpiodForm == "driver" :> "gpiod" @@ "gpio_chip" :> "gpiochip0"
               @@ "poll_interval_ms" :> "200" @@ "pins" :> DfMust
DfSysfsForm == "driver" :> "sysfs" @@ "gpio_base_path" :> "/sys/class/gpio"
               @@ "poll_interval_ms" :> "200" @@ "pins" :> DfMust
DfModbusForm == "host" :> DfMust @@ "port" :> "502" @@ "slave_id" :> "1"
                @@ "connect_timeout_ms" :> "5000" @@ "read_timeout_ms" :> "3000"
                @@ "polling_interval_ms" :> "1000" @@ "max_batch_size" :> "64"
                @@ "max_reconnect_attempts" :> "5"
DfIec104Form == "address" :> DfMust @@ "common_address" :> "1"
                @@ "connect_timeout_ms" :> "10000" @@ "t1_timeout_s" :> "15"
                @@ "t2_timeout_s" :> "10" @@ "t3_timeout_s" :> "20"
DfOpcUaForm == "endpoint_url" :> DfMust @@ "application_name" :> "client"
               @@ "username" :> DfNone @@ "password" :> DfNone
               @@ "connect_timeout_ms" :> "30000"
               @@ "session_timeout_ms" :> "60000" @@ "trust_server_certs" :> "true"
               @@ "publishing_interval_ms" :> "1000" @@ "sampling_interval_ms" :> "500"
DfCanForm == "device" :> "can0" @@ "bitrate" :> "250000"
             @@ "connect_timeout_ms" :> "3000" @@ "read_timeout_ms" :> "3000"
             @@ "retry_interval_ms" :> "2000" @@ "rx_poll_interval_ms" :> "50"
DfBleForm == "device_address" :> DfMust @@ "adapter_name" :> DfNone
             @@ "scan_timeout_ms" :> "10000" @@ "connect_timeout_ms" :> "5000"
             @@ "reconnect_interval_ms" :> "5000" @@ "mtu" :> DfNone
DfZigbeeForm == "host" :> DfMust @@ "port" :> "8888" @@ "gateway_type" :> "raw"
                @@ "permit_join_on_start" :> "false"
DfMatterForm == "device_id" :> DfMust @@ "ip_address" :> DfNone @@ "port" :> "5540"
                @@ "fabric_id" :> DfNone @@ "pin_code" :> DfNone
                @@ "subscribe_min_interval" :> "1" @@ "subscribe_max_interval" :> "60"
DfVirtualForm == "name" :> DfMust @@ "buffer_size" :> "1000" @@ "mode" :> "aggregation"
DfIec61850Form == "address" :> DfMust @@ "connect_timeout_ms" :> "10000"
                  @@ "request_timeout_ms" :> "5000" @@ "poll_interval_ms" :> "1000"
                  @@ "reports" :> "[]"

\* dl645 and voltage_485 publish an example and no parameters.
DfDl645Example == {"meter_address", "host", "port", "timeout_ms", "retry_count",
                   "frame_delay_ms"}
DfVoltage485Example == {"device", "baud_rate", "timeout_ms", "retry_count",
                        "frame_delay_ms"}

\* build_registry: which form belongs to which protocol.
DfRegistry ==
    "gpiod" :> DfGpiodForm @@ "sysfs" :> DfSysfsForm @@ "modbus_tcp" :> DfModbusForm
    @@ "sunspec_rtu" :> DfModbusForm @@ "iec104" :> DfIec104Form
    @@ "iec61850" :> DfIec61850Form @@ "opcua" :> DfOpcUaForm @@ "can" :> DfCanForm
    @@ "ble" :> DfBleForm @@ "zigbee" :> DfZigbeeForm @@ "matter" :> DfMatterForm
    @@ "virtual" :> DfVirtualForm

DfForm(d) == IF d \in DOMAIN DfRegistry THEN DfRegistry[d] ELSE <<>>
DfRequired(d) == {k \in DOMAIN DfForm(d) : DfForm(d)[k] = DfMust}

\* The example a driver publishes fills these parameters in.
DfExample(d) ==
    CASE d = "dl645" -> DfDl645Example
      [] d = "voltage_485" -> DfVoltage485Example
      [] OTHER -> DOMAIN DfForm(d) \ {k \in DOMAIN DfForm(d) : DfForm(d)[k] = DfNone}

\* ------------------------------------------------------------------
\* The parameters the gateway factory deserialises (ParamsConfig).
\* ------------------------------------------------------------------
DfModbusParams == "host" :> DfNone @@ "port" :> "502" @@ "device" :> DfNone
                  @@ "baud_rate" :> "9600" @@ "data_bits" :> "8" @@ "stop_bits" :> "1"
                  @@ "parity" :> "none" @@ "connect_timeout_ms" :> "5000"
                  @@ "read_timeout_ms" :> "3000" @@ "max_batch_size" :> "64"
                  @@ "max_gap" :> "10"
DfIec104Params == "address" :> DfMust @@ "common_address" :> "1"
                  @@ "connect_timeout_ms" :> "10000" @@ "t1_timeout_s" :> "15"
                  @@ "t2_timeout_s" :> "10" @@ "t3_timeout_s" :> "20"
DfOpcUaParams == "endpoint_url" :> DfMust @@ "application_name" :> "client"
                 @@ "username" :> DfNone @@ "password" :> DfNone
                 @@ "connect_timeout_ms" :> "10000" @@ "session_timeout_ms" :> "60000"
                 @@ "trust_server_certs" :> "true"
                 @@ "publishing_interval_ms" :> "1000" @@ "sampling_interval_ms" :> "500"
DfCanParams == "device" :> "can0" @@ "bitrate" :> "250000"
               @@ "connect_timeout_ms" :> "3000" @@ "read_timeout_ms" :> "3000"
               @@ "retry_interval_ms" :> "2000" @@ "rx_poll_interval_ms" :> "50"
               @@ "data_read_interval_ms" :> "1000"
DfGpioParams == "driver" :> "gpiod" @@ "sysfs_base_path" :> "/sys/class/gpio"
                @@ "poll_interval_ms" :> "200"
DfDl645Params == "meter_address" :> DfMust @@ "host" :> DfNone @@ "port" :> "8899"
                 @@ "device" :> DfNone @@ "baud_rate" :> "2400" @@ "data_bits" :> "8"
                 @@ "stop_bits" :> "1" @@ "parity" :> "even"
                 @@ "connect_timeout_ms" :> "5000" @@ "timeout_ms" :> "3000"
                 @@ "retry_count" :> "2" @@ "frame_delay_ms" :> "200"
DfVoltage485Params == "device" :> "/dev/ttyAP0" @@ "baud_rate" :> "115200"
                      @@ "timeout_ms" :> "1000" @@ "retry_count" :> "2"
                      @@ "frame_delay_ms" :> "50"
DfBleParams == "device_address" :> DfMust @@ "adapter_name" :> DfNone
               @@ "scan_timeout_ms" :> "10000" @@ "connect_timeout_ms" :> "5000"
               @@ "reconnect_interval_ms" :> "5000" @@ "mtu" :> DfNone
DfZigbeeParams == "host" :> DfMust @@ "port" :> "8888" @@ "gateway_type" :> "raw"
                  @@ "pan_id" :> DfNone @@ "channel" :> DfNone
                  @@ "permit_join_on_start" :> "false" @@ "connect_timeout_ms" :> "5000"
                  @@ "reconnect_interval_ms" :> "5000"
DfMatterParams == "device_id" :> DfMust @@ "fabric_id" :> DfNone @@ "pin_code" :> DfNone
                  @@ "discriminator" :> DfNone @@ "ip_address" :> DfNone
                  @@ "port" :> "5540" @@ "subscribe_min_interval" :> "1"
                  @@ "subscribe_max_interval" :> "60" @@ "connect_timeout_ms" :> "10000"
                  @@ "reconnect_interval_ms" :> "5000"
DfVirtualParams == "name" :> "virtual" @@ "buffer_size" :> "1024"
DfIec61850Params == "address" :> DfMust @@ "connect_timeout_ms" :> "10000"
                    @@ "request_timeout_ms" :> "5000" @@ "reports" :> "[]"

\* create_channel of the gateway: one creator per protocol.
DfGateway ==
    "modbus_tcp" :> DfModbusParams @@ "sunspec_rtu" :> DfModbusParams
    @@ "iec104" :> DfIec104Params @@ "opcua" :> DfOpcUaParams @@ "can" :> DfCanParams
    @@ "gpiod" :> DfGpioParams @@ "sysfs" :> DfGpioParams @@ "dl645" :> DfDl645Params
    @@ "voltage_485" :> DfVoltage485Params @@ "ble" :> DfBleParams
    @@ "zigbee" :> DfZigbeeParams @@ "matter" :> DfMatterParams
    @@ "iec61850" :> DfIec61850Params @@ "virtual" :> DfVirtualParams

\* ------------------------------------------------------------------
\* The keys the channel manager looks up, with the values it falls back to.
\* ------------------------------------------------------------------
DfManagerTcp == "host" :> "127.0.0.1" @@ "port" :> "502" @@ "read_timeout_ms" :> "3000"
                @@ "poll_interval_ms" :> "1000"
DfManagerRtu == "device" :> "/dev/ttyUSB0" @@ "baud_rate" :> "9600" @@ "data_bits" :> "8"
                @@ "stop_bits" :> "1" @@ "parity" :> "none"
                @@ "read_timeout_ms" :> "3000" @@ "poll_interval_ms" :> "1000"
DfManagerGpio == "poll_interval_ms" :> "200"
DfManagerCan == "device" :> "can0" @@ "poll_interval_ms" :> "200"
DfManagerIec61850 == "address" :> "127.0.0.1:102" @@ "connect_timeout_ms" :> "10000"
                     @@ "request_timeout_ms" :> "5000" @@ "poll_interval_ms" :> "1000"
                     @@ "reports" :> "[]"
DfManagerVirtual == "poll_interval_ms" :> "1000"
DfManagerVoltage485 == "poll_interval_ms" :> "1000" @@ DfVoltage485Params

\* create_channel_by_protocol in the default build: the others are refused.
DfManager ==
    "virtual" :> DfManagerVirtual @@ "modbus_tcp" :> DfManagerTcp
    @@ "sunspec_rtu" :> DfManagerRtu @@ "gpiod" :> DfManagerGpio
    @@ "sysfs" :> DfManagerGpio @@ "can" :> DfManagerCan
    @@ "voltage_485" :> DfManagerVoltage485 @@ "iec61850" :> DfManagerIec61850

DfReader(c) ==
    IF c.path = "gateway" THEN DfGateway
    ELSE DfManager

\* Deserialising, or looking up: a given parameter has the operator's value,
\* a missing one its default; a missing one without default is an error; a
\* parameter the reader does not know is ignored.
DfTake(r, given) ==
    IF \E k \in DOMAIN r : r[k] = DfMust /\ k \notin given THEN DfRefused
    ELSE [status |-> "made",
          with |-> [k \in DOMAIN r |-> IF k \in given THEN "given" ELSE r[k]]]

\* The creators: parameters first, then the points, then the channel.
DfCreated(c) ==
    IF c.driver \notin DOMAIN DfReader(c) THEN DfRefused
    ELSE DfTake(DfReader(c)[c.driver], c.given)

\* ------------------------------------------------------------------
\* A form is filled in (at least what it requires, or as the example
\* shows), and the channel is created from it.
\* ------------------------------------------------------------------
DfFillings(d) ==
    {DfRequired(d) \cup x : x \in {{}, DfExample(d)}
                                 \cup {{k} : k \in DOMAIN DfForm(d)}}

DfInit ==
    /\ \E d \in DfDrivers, p \in DfPaths :
          \E g \in DfFillings(d) :
             dfCase = [driver |-> d, path |-> p, given |-> g]
    /\ dfMade = [status |-> "no", with |-> <<>>]

DfMake ==
    /\ dfMade.status = "no"
    /\ dfMade' = DfCreated(dfCase)
    /\ UNCHANGED dfCase

DfNext == DfMake
DfSpec == DfInit /\ [][DfNext]_dfVars

\* ------------------------------------------------------------------
\* Properties
\* ------------------------------------------------------------------
\* What a form marks as required is all that the driver's factory needs: a
\* form filled in with its required parameters, or the published example,
\* creates a channel (ParameterMetadata.required against the fields without
\* a serde default).
DfRequiredSuffices ==
    dfMade.status # "no" /\ dfCase.path = "gateway"
    /\ (DfForm(dfCase.driver) # <<>> \/ dfCase.given = DfExample(dfCase.driver))
        => dfMade.status # "refused"

\* Of a parameter that the form and the reader both name, the channel runs
\* with the value given, or with the default the form shows.
DfSameDefaults ==
    dfMade.status = "made" =>
        \A k \in DOMAIN dfMade.with \cap DOMAIN DfForm(dfCase.driver) :
            dfMade.with[k] = IF k \in dfCase.given THEN "given"
                        ELSE DfForm(dfCase.driver)[k]

=============================================================================
