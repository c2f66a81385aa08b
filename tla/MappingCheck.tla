---------------------------- MODULE MappingCheck ----------------------------
(***************************************************************************)
(* PUT and GET /api/channels/{id}/mappings for one point: the request's    *)
(* fields are normalised, merged with the stored ones or put in their      *)
(* place, validated by the validator of the channel's protocol and stored; *)
(* later the channel is built and the loader reads the row again by its    *)
(* own rules.  A JSON value is <<"num", n>>, <<"str", n>> (a string that   *)
(* is a decimal number), <<"hex", n>> (a string "0x...") or <<"text", s>>; *)
(* a row is <<"none">> (NULL), <<"null">> (JSON null) or <<"obj", fields>>.*)
(***************************************************************************)
EXTENDS Integers, TLC

CONSTANTS MkProtos,    \* the protocols of the channels
          MkObjects,   \* the objects a request carries: functions of field to value
          MkImported,  \* rows written by an import, which validates nothing
          MkUpdates    \* bound: requests

VARIABLES mkProto, mkType, mkRow,
          mkLast,      \* the last request: [item, mode, before, told]
          mkLeft

mkVars == <<mkProto, mkType, mkRow, mkLast, mkLeft>>

MkNone == <<"none">>
MkNull == <<"null">>
MkObj(d) == <<"obj", d>>
MkItems == {MkNull} \cup {MkObj(d) : d \in MkObjects}

MkModbusFamily == {"modbus_tcp", "modbus_rtu"}

MkInit ==
  /\ mkProto \in MkProtos /\ mkType \in {"T", "S", "C", "A"}
  /\ mkRow \in {MkNone} \cup {MkObj(d) : d \in MkImported}
  /\ mkLast = [item |-> MkNull, mode |-> "replace", before |-> MkNone, told |-> "nothing"]
  /\ mkLeft = MkUpdates

(* ---------------------------- normalisation ---------------------------- *)

MkNumericFields ==
  CASE mkProto \in MkModbusFamily -> {"slave_id", "function_code", "register_address", "bit_position"}
    [] mkProto = "gpio" -> {"gpio_number"}
    [] mkProto = "can" -> {"can_id", "byte_offset", "bit_position", "bit_length", "scale", "offset"}
    [] mkProto = "iec61850" -> {"ctrl_model"}
    [] OTHER -> {}

(* normalize_protocol_data: a decimal string in a numeric field becomes a  *)
(* number; a hex string stays a string.                                    *)
MkNormalize(v) ==
  IF v[1] # "obj" THEN v
  ELSE MkObj([f \in DOMAIN v[2] |-> IF f \in MkNumericFields /\ v[2][f][1] = "str"
                                    THEN <<"num", v[2][f][2]>> ELSE v[2][f]])

(* ----------------------------- validation ------------------------------ *)

(* serde: a field of an unsigned type, required or optional *)
MkUint(d, f, max) == f \in DOMAIN d /\ d[f][1] = "num" /\ d[f][2] \in 0..max
MkMaybe(d, f, max) == f \in DOMAIN d => MkUint(d, f, max)
MkOneOf(d, f, names) == f \in DOMAIN d => d[f][1] = "text" /\ d[f][2] \in names
MkTop == 1000000   \* bound: stands for the largest u32

(* deserialize_u32_hex *)
MkHexUint(d, f) == MkUint(d, f, MkTop) \/ (f \in DOMAIN d /\ d[f][1] \in {"hex", "str"} /\ d[f][2] \in 0..MkTop)

(* validate_modbus_function_code_match *)
MkFcMatch(fc) ==
  fc \in CASE mkType \in {"T", "S"} -> {1, 2, 3, 4}
           [] mkType = "C" -> {5, 6, 15, 16}
           [] mkType = "A" -> {6, 16}

MkModbusFields(d) ==
  /\ MkUint(d, "slave_id", 255) /\ MkUint(d, "function_code", 255) /\ MkUint(d, "register_address", 65535)
  /\ MkMaybe(d, "bit_position", 255)
MkModbusRules(d) ==
  /\ d["slave_id"][2] \in 1..247
  /\ d["function_code"][2] \in {1, 2, 3, 4, 5, 6, 15, 16}
  /\ MkOneOf(d, "data_type", {"bool", "uint16", "int16", "uint32", "int32", "float32", "float64"})
  /\ MkOneOf(d, "byte_order", {"ABCD", "DCBA", "BADC", "CDAB", "AB", "BA"})
  /\ MkFcMatch(d["function_code"][2])

MkVirtualRules(d) == "expression" \in DOMAIN d /\ d["expression"][1] # "num" /\ d["expression"][2] # ""
MkGpioRules(d) == MkUint(d, "gpio_number", 1023) /\ mkType \in {"S", "C"}

MkCanFields(d) ==
  /\ MkHexUint(d, "can_id") /\ MkUint(d, "byte_offset", 255) /\ MkUint(d, "bit_length", 255)
  /\ MkMaybe(d, "bit_position", 255)
MkCanRules(d) ==
  /\ d["byte_offset"][2] <= 7
  /\ "bit_position" \in DOMAIN d => d["bit_position"][2] <= 7
  /\ d["bit_length"][2] > 0
  /\ MkOneOf(d, "data_type", {"uint8", "uint16", "int16", "uint32", "int32", "float32", "ascii"})

(* Addresses of IEC 61850 are named: "whole" has a domain and an item,     *)
(* "halved" lacks one of them, "plain" has no separator.                   *)
MkIec61850Fields(d) ==
  "address" \in DOMAIN d /\ d["address"][1] = "text" /\ MkMaybe(d, "ctrl_model", 255)
MkIec61850Rules(d) ==
  /\ d["address"][2] = "whole"
  /\ "ctrl_model" \in DOMAIN d =>
        d["ctrl_model"][2] \in CASE mkType = "C" -> {1, 2} [] mkType = "A" -> {1} [] OTHER -> 1..4

(* validate_mappings: null and {} clear the mapping *)
MkValidate(v) ==
  \/ v = MkNull \/ v = MkObj(<<>>)
  \/ LET d == v[2]
     IN  CASE mkProto \in MkModbusFamily -> MkModbusFields(d) /\ MkModbusRules(d)
           [] mkProto = "virtual" -> MkVirtualRules(d)
           [] mkProto = "gpio" -> MkGpioRules(d)
           [] mkProto = "can" -> MkCanFields(d) /\ MkCanRules(d)
           [] mkProto = "iec61850" -> MkIec61850Fields(d) /\ MkIec61850Rules(d)
           [] OTHER -> FALSE

(* ------------------------------ the handler ---------------------------- *)

(* Merge: a stored JSON null is no object, and the new fields are lost.    *)
MkBase == IF mkRow = MkNone THEN MkObj(<<>>) ELSE mkRow
MkExtended(item) == IF MkBase[1] = "obj" /\ item[1] = "obj" THEN MkObj(item[2] @@ MkBase[2]) ELSE MkBase

MkSerialized(v) == IF v = MkObj(<<>>) THEN MkNone ELSE v

MkUpdate(item, mode, dry) ==
  /\ mkLeft > 0 /\ mkLeft' = mkLeft - 1
  /\ LET asked == MkNormalize(item)
         new == MkNormalize(IF mode = "replace" THEN asked ELSE MkExtended(asked))
         told == IF dry THEN (IF mode = "replace" => MkValidate(asked) THEN "valid" ELSE "refused")
                 ELSE IF MkValidate(new) THEN "updated" ELSE "refused"
     IN  /\ mkLast' = [item |-> asked, mode |-> mode, before |-> mkRow, told |-> told]
         /\ mkRow' = IF told = "updated" THEN MkSerialized(new) ELSE mkRow
  /\ UNCHANGED <<mkProto, mkType>>

MkNext == \E item \in MkItems, mode \in {"replace", "merge"}, dry \in BOOLEAN : MkUpdate(item, mode, dry)
MkSpec == MkInit /\ [][MkNext]_mkVars

(* get_channel_mappings_handler, parse_protocol_json *)
MkGet == IF mkRow[1] = "obj" THEN mkRow[2] ELSE <<>>

(* ------------------------- the loader's own rules ---------------------- *)

(* parse_u64_field *)
MkLoadUint(d, f) == f \in DOMAIN d /\ d[f][1] \in {"num", "str"} /\ d[f][2] >= 0

(* parse_modbus_mapping, parse_byte_order *)
MkLoadModbus(d) ==
  IF MkLoadUint(d, "slave_id") /\ MkLoadUint(d, "function_code") /\ MkLoadUint(d, "register_address")
  THEN {[at |-> <<d["slave_id"][2], d["function_code"][2], d["register_address"][2]>>,
         order |-> IF "byte_order" \in DOMAIN d /\ d["byte_order"][2] \in {"DCBA", "BADC", "CDAB"}
                   THEN d["byte_order"][2] ELSE "ABCD"]}
  ELSE {}

(* CanProtocolMapping: start_bit, and numbers only *)
MkLoadCan(d) ==
  IF MkUint(d, "can_id", MkTop) /\ MkUint(d, "start_bit", MkTop) /\ MkUint(d, "bit_length", MkTop)
  THEN {[at |-> <<d["can_id"][2], d["start_bit"][2] \div 8, d["start_bit"][2] % 8, d["bit_length"][2]>>, order |-> ""]}
  ELSE {}

(* create_gpio_channel, parse_iec61850_point with Iec61850Address::parse *)
MkLoadGpio(d) ==
  IF MkUint(d, "gpio_number", MkTop) /\ mkType \in {"S", "C"}
  THEN {[at |-> <<d["gpio_number"][2]>>, order |-> ""]} ELSE {}
MkLoadIec61850(d) ==
  IF "address" \in DOMAIN d /\ d["address"][1] = "text" /\ d["address"][2] # "plain"
  THEN {[at |-> <<IF MkUint(d, "ctrl_model", 255) THEN d["ctrl_model"][2] ELSE 1>>, order |-> d["address"][2]]} ELSE {}

MkLoad(d) ==
  CASE mkProto \in MkModbusFamily -> MkLoadModbus(d)
    [] mkProto = "can" -> MkLoadCan(d)
    [] mkProto = "gpio" -> MkLoadGpio(d)
    [] mkProto = "iec61850" -> MkLoadIec61850(d)
    [] OTHER -> {[at |-> <<>>, order |-> ""]}

(* What an accepted mapping asks for. *)
MkMeant(d) ==
  LET or(f, v) == IF f \in DOMAIN d THEN d[f][2] ELSE v
  IN  CASE mkProto \in MkModbusFamily ->
             [at |-> <<d["slave_id"][2], d["function_code"][2], d["register_address"][2]>>, order |-> or("byte_order", "ABCD")]
        [] mkProto = "can" ->
             [at |-> <<d["can_id"][2], d["byte_offset"][2], or("bit_position", 0), d["bit_length"][2]>>, order |-> ""]
        [] mkProto = "gpio" -> [at |-> <<d["gpio_number"][2]>>, order |-> ""]
        [] mkProto = "iec61850" -> [at |-> <<or("ctrl_model", 1)>>, order |-> d["address"][2]]
        [] OTHER -> [at |-> <<>>, order |-> ""]

(* A mapping the API accepted and that is not empty gives the point, when  *)
(* the channel is built from the row, exactly the address it asked for.    *)
MkAcceptedLoads ==
  mkLast.told = "updated" /\ MkGet # <<>> => MkLoad(MkGet) = {MkMeant(MkGet)}

(* After an accepted update a GET shows every field of the request as it   *)
(* was normalised; a merge keeps the other fields of the row, a replace    *)
(* keeps none; a refused or validate_only request changes nothing.  A row  *)
(* that held JSON null is excepted: see MkTakenAlways.                     *)
MkTaken ==
  LET l == mkLast
      old == IF l.before[1] = "obj" THEN DOMAIN l.before[2] ELSE {}
      new == IF l.item[1] = "obj" THEN DOMAIN l.item[2] ELSE {}
  IN  IF l.told # "updated" THEN l.told # "nothing" => mkRow = l.before
      ELSE l.mode = "replace" \/ l.before # MkNull =>
             /\ \A f \in new : f \in DOMAIN MkGet /\ MkGet[f] = l.item[2][f]
             /\ DOMAIN MkGet = IF l.mode = "replace" THEN new ELSE new \cup old

=============================================================================
