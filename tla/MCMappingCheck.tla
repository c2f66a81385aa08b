--------------------------- MODULE MCMappingCheck ---------------------------
(* The point mappings that are sent to a channel: whole, partial and out-of-range ones of     *)
(* every protocol, numbers as numbers and as strings, and rows an import has stored.          *)
EXTENDS MappingCheck

Num(n) == <<"num", n>>
Str(n) == <<"str", n>>
Text(t) == <<"text", t>>

Modbus(s, f, r) == "slave_id" :> s @@ "function_code" :> f @@ "register_address" :> r
Can(id, offset) == "can_id" :> id @@ "byte_offset" :> Num(offset) @@ "bit_length" :> Num(16)

SentMappings ==
    {<<>>, Modbus(Num(1), Num(3), Num(7)), Modbus(Str(247), Str(6), Num(0)),
     Modbus(Num(248), Num(3), Num(7)), "function_code" :> Num(5),
     "byte_order" :> Text("CDAB"), "byte_order" :> Text("XY"),
     "gpio_number" :> Str(496), "gpio_number" :> Num(1024), "expression" :> Text("P1"),
     "address" :> Text("whole"), "address" :> Text("halved"), "ctrl_model" :> Str(2),
     Can(<<"hex", 849>>, 2), Can(Num(849), 8)}

StoredMappings ==
    {Modbus(Str(1), Str(4), Str(9)), "gpio_number" :> Str(5), "expression" :> Text("")}
=============================================================================
