---------------------------- MODULE WireFormats ----------------------------
(***************************************************************************)
(* The byte formats of the field protocols: what an adapter writes on the wire *)
(* and what it makes of the bytes that come back.                          *)
(***************************************************************************)
EXTENDS Integers, Sequences, FiniteSets, Bitwise, SequencesExt, FiniteSetsExt, TLC

-----------------------------------------------------------------------------
(*------------------------------- Dl645Codec ------------------------------*)
(***************************************************************************)
(* The frames of DL/T 645-2007 as comsrv's adapter builds and reads them,  *)
(* and the decimal numbers they carry.                                     *)
(*                                                                         *)
(* A state is one exchange: a meter, a data identifier, the data of the    *)
(* answer, what precedes the answer on the line, and a byte of it that may *)
(* have been hit.                                                          *)
(***************************************************************************)

CONSTANTS DcAddrs,   \* meter addresses, 6 BCD bytes, most significant first
          DcIds,     \* data identifiers, 4 bytes, least significant first
          DcData,    \* data fields of an answer
          DcNoise,   \* what the line may carry before the answer
          DcBytes    \* bytes that a disturbance may put in the place of another

VARIABLE dcCase

DcStart == 104            \* 0x68
DcEnd == 22               \* 0x16
DcReadReq == 17           \* 0x11
DcReadResp == 145         \* 0x91
DcOffset == 51            \* 0x33

----------------------------------------------------------------------------
(* Frames *)

DcEncodeData(d) == [i \in DOMAIN d |-> (d[i] + DcOffset) % 256]
DcDecodeData(d) == [i \in DOMAIN d |-> (d[i] - DcOffset) % 256]
DcChecksum(f) == FoldSeq(LAMBDA b, acc : (acc + b) % 256, 0, f)
DcSealed(f) == f \o <<DcChecksum(f), DcEnd>>

\* encode_read_request()
DcRequest(addr, di) ==
    DcSealed(<<DcStart>> \o Reverse(addr) \o <<DcStart, DcReadReq, 4>> \o DcEncodeData(di))

\* What a meter answers (external): data, or an error code.
DcAnswer(addr, di, d) ==
    DcSealed(<<DcStart>> \o Reverse(addr) \o <<DcStart, DcReadResp, 4 + Len(d)>>
             \o DcEncodeData(di \o d))

DcBad == [ok |-> FALSE]

\* decode_response()
DcDecode(f) ==
    IF \/ Len(f) < 14
       \/ f[1] # DcStart \/ f[8] # DcStart \/ f[Len(f)] # DcEnd
       \/ f[Len(f) - 1] # DcChecksum(SubSeq(f, 1, Len(f) - 2))
       \/ Len(f) # 12 + f[10]
       \/ f[9] # DcReadResp
       \/ f[10] < 4
    THEN DcBad
    ELSE LET d == DcDecodeData(SubSeq(f, 11, 10 + f[10]))
         IN  [ok |-> TRUE, addr |-> Reverse(SubSeq(f, 2, 7)), di |-> SubSeq(d, 1, 4),
              data |-> SubSeq(d, 5, Len(d))]

\* receive_frame(): of all that has been read, the frame that the first start byte opens, or <<>>
\* while more has to come.
DcReceive(read) ==
    LET starts == {i \in DOMAIN read : read[i] = DcStart}
        s == CHOOSE i \in starts : \A j \in starts : i <= j
    IN  IF Len(read) < 14 \/ starts = {} \/ Len(read) < s + 9 THEN <<>>
        ELSE IF Len(read) < s + 11 + read[s + 9] THEN <<>>
        ELSE SubSeq(read, s, s + 11 + read[s + 9])

----------------------------------------------------------------------------
(* Numbers, in units of their last decimal *)

DcHigh(b) == b \div 16
DcLow(b) == b % 16
\* bcd_to_u32() of a byte.
DcBcd(b) == DcHigh(b) * 10 + DcLow(b)

\* parse_energy(): XXXXXX.XX
DcEnergy(d) == (DcBcd(d[2]) + DcBcd(d[3]) * 100 + DcBcd(d[4]) * 10000) * 100 + DcBcd(d[1])
\* parse_voltage(): XXX.X
DcVoltage(d) ==
    (DcBcd(DcHigh(d[1])) + DcBcd(DcLow(d[2])) * 10 + DcBcd(DcHigh(d[2])) * 100) * 10
        + DcBcd(DcLow(d[1]))
\* parse_current(): XXX.XXX
DcCurrent(d) ==
    (DcBcd(DcHigh(d[2])) + DcBcd(DcLow(d[3])) * 10 + DcBcd(DcHigh(d[3])) * 100) * 1000
        + DcLow(d[2]) * 100 + DcHigh(d[1]) * 10 + DcLow(d[1])
\* parse_power(): XX.XXXX, the top bit is the sign
DcPower(d) ==
    LET last == d[3] % 128
        v == (DcLow(last) + DcHigh(last) * 10) * 10000
                + DcHigh(d[2]) * 1000 + DcLow(d[2]) * 100 + DcHigh(d[1]) * 10 + DcLow(d[1])
    IN  IF d[3] >= 128 THEN -v ELSE v
\* parse_power_factor(): X.XXX, the top bit is the sign
DcPowerFactor(d) ==
    LET last == d[2] % 128
        v == DcHigh(last) * 1000 + DcLow(last) * 100 + DcHigh(d[1]) * 10 + DcLow(d[1])
    IN  IF d[2] >= 128 THEN -v ELSE v

----------------------------------------------------------------------------
(* The exchanges *)

DcSent(x) == DcAnswer(x.addr, x.di, x.data)

DcInit ==
    dcCase \in [addr : DcAddrs, di : DcIds, data : DcData, noise : DcNoise, at : 0..20,
                byte : DcBytes]
DcNext == UNCHANGED dcCase
DcSpec == DcInit /\ [][DcNext]_dcCase

----------------------------------------------------------------------------
(* Properties *)

\* The request is what a meter of this address reads: it carries its own checksum and the data
\* identifier.
DcRequestRead ==
    LET r == DcRequest(dcCase.addr, dcCase.di)
    IN  /\ Len(r) = 16 /\ r[15] = DcChecksum(SubSeq(r, 1, 14))
        /\ Reverse(SubSeq(r, 2, 7)) = dcCase.addr
        /\ DcDecodeData(SubSeq(r, 11, 14)) = dcCase.di

\* An answer comes back out of the line as it was sent, whatever bytes without a start marker
\* precede it and however the reads cut it: receive_frame() never returns a part, never more.
DcReadsBack ==
    LET f == DcSent(dcCase)
        line == dcCase.noise \o f
    IN  (DcStart \notin Range(dcCase.noise)) =>
          /\ \A n \in 0..Len(line) - 1 : DcReceive(SubSeq(line, 1, n)) = <<>>
          /\ DcReceive(line) = f
          /\ DcDecode(f) = [ok |-> TRUE, addr |-> dcCase.addr, di |-> dcCase.di,
                            data |-> dcCase.data]
          /\ DcRequestRead

\* Whatever noise precedes the answer, start markers included, what is accepted is the answer.
DcNoiseHarmless ==
    LET d == DcDecode(DcReceive(dcCase.noise \o DcSent(dcCase)))
    IN  d.ok => d.di = dcCase.di /\ d.data = dcCase.data

\* Reference: the digits of d, least significant byte first, read as one number.
DcDigits(d) ==
    FoldLeft(LAMBDA acc, b : acc * 100 + DcHigh(b) * 10 + DcLow(b), 0, Reverse(d))

\* The parsers agree with the digits read as one number, sign bit aside.
DcNumbers ==
    LET d == dcCase.data
        Neg(v, neg) == IF neg THEN -v ELSE v
        Bare(n) == [SubSeq(d, 1, n) EXCEPT ![n] = @ % 128]
    IN  Len(d) = 4 =>
          /\ DcEnergy(d) = DcDigits(d)
          /\ DcVoltage(d) = DcDigits(SubSeq(d, 1, 2))
          /\ DcCurrent(d) = DcDigits(SubSeq(d, 1, 3))
          /\ DcPower(d) = Neg(DcDigits(Bare(3)), d[3] >= 128)
          /\ DcPowerFactor(d) = Neg(DcDigits(Bare(2)), d[2] >= 128)

-----------------------------------------------------------------------------
(*------------------------------ ModbusCodec ------------------------------*)
(***************************************************************************)
(* The values of Modbus registers: how the byte orders lay a value out     *)
(* over registers, the range checks of an encoded value, and the merging   *)
(* of batched writes to neighbouring registers into one FC16 request.      *)
(*                                                                         *)
(* A register is a pair of bytes.  Values of 32 and 64 bits are the        *)
(* sequence of their bytes, most significant first; 16 bit ones are        *)
(* numbers.  There are no steps: a behaviour is one case.                  *)
(***************************************************************************)

CONSTANTS McWide,       \* byte sequences of length 4 and 8
          McSmall,      \* integers to encode in one register
          McTexts,      \* strings of bytes
          McCommands    \* batched writes: [a |-> register, v |-> bytes, ok |-> it encodes]

VARIABLE mcCase

McOrders == {"ABCD", "DCBA", "BADC", "CDAB"}

\* The positions of the bytes of an n byte value, in the order an encoding sends them;
\* one register has no order.
McPermutation(order, n) ==
    [k \in 1..n |->
        CASE order = "ABCD" \/ n = 2 -> k
          [] order = "DCBA" /\ n > 2 -> n + 1 - k
          [] order = "BADC" /\ n > 2 -> IF k % 2 = 1 THEN k + 1 ELSE k - 1
          [] order = "CDAB" /\ n > 2 -> IF (k - 1) % 4 < 2 THEN k + 2 ELSE k - 2]

\* reorder_to_registers_32(), reorder_to_registers_64()
McToRegisters(bytes, order) ==
    LET p == McPermutation(order, Len(bytes))
    IN  [i \in 1..(Len(bytes) \div 2) |-> <<bytes[p[2 * i - 1]], bytes[p[2 * i]]>>]

\* reorder_bytes_32(), reorder_bytes_64()
McToBytes(regs, order) ==
    LET flat == FlattenSeq(regs)
        p    == McPermutation(order, Len(flat))
    IN  [k \in 1..Len(flat) |-> flat[p[k]]]

McWord(n) == <<n \div 256, n % 256>>
McNumber(reg) == (256 * reg[1]) + reg[2]

\* encode_registers() of UInt16 and Int16: a value out of range is refused (<<>>).
McEncode16(v, signed) ==
    IF signed THEN IF v < -32768 \/ v > 32767 THEN <<>> ELSE <<McWord(v % 65536)>>
    ELSE IF v < 0 \/ v > 65535 THEN <<>> ELSE <<McWord(v)>>

\* decode_registers() of UInt16 and Int16
McDecode16(regs, signed) ==
    LET n == McNumber(regs[1]) IN IF signed /\ n > 32767 THEN n - 65536 ELSE n

\* decode_registers() of Bool
McBit(reg, bit) == (McNumber(reg) \div (2 ^ bit)) % 2

\* encode_registers() and decode_registers() of String
McEncodeText(s) ==
    [i \in 1..((Len(s) + 1) \div 2) |-> <<s[2 * i - 1], IF 2 * i <= Len(s) THEN s[2 * i] ELSE 0>>]
McDecodeText(regs) == SelectSeq(FlattenSeq(regs), LAMBDA b : b # 0)

----------------------------------------------------------------------------
(* CommandBatcher and execute_merged_fc16(): a device's registers are a function of the   *)
(* registers written.                                                                     *)

McCount(c) == Len(c.v) \div 2
McSorted(cs) == SetToSortSeq(DOMAIN cs, LAMBDA i, j : cs[i].a < cs[j].a \/ (cs[i].a = cs[j].a /\ i < j))

\* are_strictly_consecutive(): u16 addresses wrap.
McConsecutive(cs) ==
    LET o == McSorted(cs)
    IN  /\ Len(cs) >= 2
        /\ \A k \in 1..(Len(o) - 1) : cs[o[k + 1]].a = (cs[o[k]].a + McCount(cs[o[k]])) % 65536

McPut(dev, a, regs) ==
    [r \in {(a + k) % 65536 : k \in 0..(Len(regs) - 1)} |-> regs[1 + ((r - a) % 65536)]] @@ dev

\* write_single_command() for each, in order: what is written, and how many succeed.
McSingly(cs, order) ==
    FoldLeft(LAMBDA s, c : IF c.ok THEN [dev |-> McPut(s.dev, c.a, McToRegisters(c.v, order)),
                                         done |-> s.done + 1] ELSE s,
             [dev |-> <<>>, done |-> 0], cs)

\* execute_merged_fc16(): nothing is written when one command does not encode.
McMerged(cs, order) ==
    LET o == McSorted(cs)
    IN  IF \E i \in DOMAIN cs : ~cs[i].ok THEN [dev |-> <<>>, done |-> 0]
        ELSE [dev |-> McPut(<<>>, cs[o[1]].a,
                            FlattenSeq([k \in DOMAIN o |-> McToRegisters(cs[o[k]].v, order)])),
              done |-> Len(cs)]

\* execute_batched_commands() for the FC16 commands of a slave
McExecute(cs, order) == IF McConsecutive(cs) THEN McMerged(cs, order) ELSE McSingly(cs, order)

----------------------------------------------------------------------------

McCases ==
    [kind : {"wide"}, bytes : McWide, order : McOrders]
    \cup [kind : {"small"}, v : McSmall, signed : BOOLEAN]
    \cup [kind : {"text"}, s : McTexts]
    \cup [kind : {"write"}, cs : McCommands, order : McOrders]

McInit == mcCase \in McCases
McNext == UNCHANGED mcCase
McSpec == McInit /\ [][McNext]_mcCase

----------------------------------------------------------------------------
(* Properties *)

\* A 32 or 64 bit value written in any byte order reads back in that order, and no two byte
\* orders lay a value out alike unless its bytes repeat.
McWideBack ==
    mcCase.kind = "wide" =>
        /\ McToBytes(McToRegisters(mcCase.bytes, mcCase.order), mcCase.order) = mcCase.bytes
        /\ \A o \in McOrders \ {mcCase.order} :
              Cardinality(Range(mcCase.bytes)) = Len(mcCase.bytes) =>
                  McToRegisters(mcCase.bytes, o) # McToRegisters(mcCase.bytes, mcCase.order)

\* A number that fits one register reads back, and one that does not fit is refused rather than
\* truncated.
McSmallBack ==
    mcCase.kind = "small" =>
        LET regs == McEncode16(mcCase.v, mcCase.signed)
            fits == IF mcCase.signed THEN mcCase.v \in -32768..32767 ELSE mcCase.v \in 0..65535
        IN  /\ regs # <<>> <=> fits
            /\ fits => /\ McDecode16(regs, mcCase.signed) = mcCase.v
                       /\ \A b \in 0..15 : McBit(regs[1], b) = ((mcCase.v % 65536) \div (2 ^ b)) % 2

\* A string without NUL bytes reads back, also when its last register is padded.
McTextBack ==
    (mcCase.kind = "text" /\ \A i \in DOMAIN mcCase.s : mcCase.s[i] # 0) =>
        McDecodeText(McEncodeText(mcCase.s)) = mcCase.s

\* What is written to a device of any byte order is what is read from it: numbers of two and four
\* registers, numbers of one, bits and strings.
McReadsBack == McWideBack /\ McSmallBack /\ McTextBack

\* Merging neighbouring writes into one request leaves the registers that writing them one by
\* one would, when all of them encode, and otherwise writes nothing.
McMergeSame ==
    mcCase.kind = "write" =>
        LET r == McExecute(mcCase.cs, mcCase.order)
            all == \A i \in DOMAIN mcCase.cs : mcCase.cs[i].ok
        IN  /\ all => r = McSingly(mcCase.cs, mcCase.order)
            /\ (~all /\ McConsecutive(mcCase.cs)) => r.dev = <<>> /\ r.done = 0

-----------------------------------------------------------------------------
(*----------------------------- Iec61850Codec -----------------------------*)
(***************************************************************************)
(* What comsrv's IEC 61850 client puts on the wire and reads from it: TPKT *)
(* frames around COTP, session and presentation headers, MMS requests in   *)
(* BER, and the InformationReports by which a device reports a data set.   *)
(*                                                                         *)
(* A state is one case: a frame in the receive buffer, a request for a     *)
(* variable, or a report of some elements of a data set.                   *)
(***************************************************************************)

CONSTANTS MsLengths,   \* lengths of an MMS PDU
          MsNames,     \* lengths of a domain or item name
          MsDatas,     \* lengths of the data of a write
          MsSizes,     \* sizes of a data set
          MsOptions    \* sets of optional fields of a report, as bit numbers of OptFlds

VARIABLE msCase

----------------------------------------------------------------------------
(* Lengths and values *)

\* push_ber_len()
MsBerLen(n) ==
    IF n < 128 THEN <<n>> ELSE IF n < 256 THEN <<129, n>> ELSE <<130, n \div 256, n % 256>>

\* ber_len_size()
MsBerLenSize(n) == IF n < 128 THEN 1 ELSE IF n < 256 THEN 2 ELSE 3

MsNone == [ok |-> FALSE]

\* parse_ber_len() of the bytes at p: the length and the size of the header.
MsReadLen(b, p) ==
    IF p > Len(b) THEN MsNone
    ELSE CASE b[p] < 128 -> [ok |-> TRUE, len |-> b[p], size |-> 1]
           [] b[p] = 129 /\ p + 1 <= Len(b) -> [ok |-> TRUE, len |-> b[p + 1], size |-> 2]
           [] b[p] = 130 /\ p + 2 <= Len(b) ->
                  [ok |-> TRUE, len |-> b[p + 1] * 256 + b[p + 2], size |-> 3]
           [] OTHER -> MsNone

\* parse_tlv(): the content of the element at the front, if it has this tag, and the rest.
MsTlv(b, tag) ==
    LET l == MsReadLen(b, 2)
    IN  IF b = <<>> THEN MsNone
        ELSE IF b[1] # tag \/ ~l.ok THEN MsNone
        ELSE IF 1 + l.size + l.len > Len(b) THEN MsNone
        ELSE [ok |-> TRUE, content |-> SubSeq(b, 2 + l.size, 1 + l.size + l.len),
              rest |-> SubSeq(b, 2 + l.size + l.len, Len(b))]

\* Signed integer of a Data element: sign extension, then the bytes.
MsInteger(v) == FoldLeft(LAMBDA n, b : n * 256 + b, IF v[1] >= 128 THEN -1 ELSE 0, v)

----------------------------------------------------------------------------
(* Frames *)

\* pres_data_header(): every length counts the header of the element inside with its own size.
MsPresHeader(n) ==
    LET pdv == 3 + 1 + MsBerLenSize(n) + n
        fed == 1 + MsBerLenSize(pdv) + pdv
    IN  <<97>> \o MsBerLen(fed) \o <<48>> \o MsBerLen(pdv) \o <<2, 1, 3, 160>> \o MsBerLen(n)

MsDt == <<2, 240, 128>>
MsSession == <<1, 0, 1, 0>>

\* wrap_data_pdu()
MsWrap(pdu) ==
    LET body == MsDt \o MsSession \o MsPresHeader(Len(pdu)) \o pdu
        total == (4 + Len(body)) % 65536
    IN  <<3, 0, total \div 256, total % 256>> \o body

\* take_buffered_tpkt(): the payload of a complete frame at the front, and the bytes after it.
MsTake(b) ==
    IF Len(b) < 4 THEN MsNone
    ELSE LET total == b[3] * 256 + b[4]
         IN  IF b[1] # 3 \/ total < 4 \/ Len(b) < total THEN MsNone
             ELSE [ok |-> TRUE, payload |-> SubSeq(b, 5, total),
                   rest |-> SubSeq(b, total + 1, Len(b))]

\* unwrap_data_pdu()
MsUnwrap(p) ==
    IF ~IsPrefix(MsDt \o MsSession, p) THEN MsNone
    ELSE LET fed == MsTlv(SubSeq(p, 8, Len(p)), 97)
             pdv == MsTlv(fed.content, 48)
             mms == MsTlv(SubSeq(pdv.content, 4, Len(pdv.content)), 160)
         IN  IF ~fed.ok THEN MsNone
             ELSE IF ~pdv.ok THEN MsNone
             ELSE IF ~IsPrefix(<<2, 1, 3>>, pdv.content) THEN MsNone
             ELSE mms

----------------------------------------------------------------------------
(* Requests *)

MsText(n) == [i \in 1..n |-> 65]

\* Content of the A1 element with the two names.
MsNameLen(d, i) == 2 + d + 2 + i

\* The variable of a request: "Total TLV size = 2 + content", whatever the content.
MsVariable(d, i) ==
    LET n == MsNameLen(d, i)
    IN  <<48>> \o MsBerLen(4 + n) \o <<160>> \o MsBerLen(2 + n) \o <<161>> \o MsBerLen(n)
            \o <<26, d>> \o MsText(d) \o <<26, i>> \o MsText(i)

\* build_read_request()
MsRead(id, d, i) ==
    LET n == MsNameLen(d, i)
    IN  <<160>> \o MsBerLen(15 + n) \o <<2, 1, id>> \o <<164>> \o MsBerLen(10 + n)
            \o <<161>> \o MsBerLen(8 + n) \o <<160>> \o MsBerLen(6 + n) \o MsVariable(d, i)

\* build_write_request()
MsWrite(id, d, i, data) ==
    LET list == 6 + MsNameLen(d, i)
        inner == (2 + list) + (2 + Len(data))
    IN  <<160>> \o MsBerLen(5 + inner) \o <<2, 1, id>> \o <<165>> \o MsBerLen(inner)
            \o <<160>> \o MsBerLen(list) \o MsVariable(d, i)
            \o <<160>> \o MsBerLen(Len(data)) \o data

----------------------------------------------------------------------------
(* Reports *)

\* parse_data_item() over all the items: tags and contents, up to one that is cut short.
RECURSIVE MsItems(_)
MsItems(b) ==
    LET t == MsTlv(b, b[1])
    IN  IF b = <<>> THEN <<>>
        ELSE IF ~t.ok THEN <<>>
        ELSE <<[tag |-> b[1], val |-> t.content]>> \o MsItems(t.rest)

\* Bit n of a BIT STRING: the first byte of its content counts the unused bits.
MsBit(v, n) == (n \div 8) + 2 <= Len(v) /\ (v[(n \div 8) + 2] \div (2 ^ (7 - (n % 8)))) % 2 = 1

\* Items between OptFlds and the inclusion bitmap.
MsSkipped(opts) ==
    FoldLeft(LAMBDA n, o : IF MsBit(opts, o) THEN n + (IF o = 9 THEN 2 ELSE 1) ELSE n,
             0, <<1, 2, 4, 6, 7, 8, 9>>)

\* parse_report(): the elements that the report includes, and their values in the same order.
MsParseReport(pdu) ==
    LET info == MsTlv(MsTlv(pdu, 163).content, 160).content
        items == MsItems(MsTlv(MsTlv(info, 161).rest, 160).content)
        at == 3 + MsSkipped(items[2].val)
        incl == items[at].val
        size == (Len(incl) - 1) * 8 - incl[1]
        included == SelectSeq([k \in 1..size |-> k - 1], LAMBDA k : MsBit(incl, k))
        first == at + 1 + (IF MsBit(items[2].val, 5) THEN Len(included) ELSE 0)
    IN  IF Len(items) < 3 \/ items[1].tag # 138 \/ items[2].tag # 132 THEN MsNone
        ELSE IF at > Len(items) THEN MsNone
        ELSE IF items[at].tag # 132 \/ first + Len(included) - 1 > Len(items) THEN MsNone
        ELSE [ok |-> TRUE, indices |-> included,
              values |-> [k \in 1..Len(included) |-> MsInteger(items[first + k - 1].val)]]

\* The device (external): the elements of a data set, with value 3k - 5 for element k.
MsElement(tag, v) == <<tag>> \o MsBerLen(Len(v)) \o v
MsValue(k) == 3 * k - 5
MsBitString(bits, size) ==
    LET bytes == (size + 7) \div 8
        byte(j) == FoldLeft(LAMBDA n, i : n * 2 + (IF (j - 1) * 8 + i \in bits THEN 1 ELSE 0),
                            0, <<0, 1, 2, 3, 4, 5, 6, 7>>)
    IN  <<bytes * 8 - size>> \o [j \in 1..bytes |-> byte(j)]
MsReport(opts, size, included) ==
    LET chosen == SelectSeq([k \in 1..size |-> k - 1], LAMBDA k : k \in included)
        Opt(o, n) == IF o \in opts THEN FlattenSeq([j \in 1..n |-> MsElement(134, <<o>>)]) ELSE <<>>
        items == MsElement(138, MsText(3)) \o MsElement(132, MsBitString(opts, 10))
                 \o Opt(1, 1) \o Opt(2, 1) \o Opt(4, 1) \o Opt(6, 1) \o Opt(7, 1) \o Opt(8, 1)
                 \o Opt(9, 2) \o MsElement(132, MsBitString(included, size))
                 \o Opt(5, Len(chosen))
                 \o FlattenSeq([j \in 1..Len(chosen) |->
                                    MsElement(133, <<MsValue(chosen[j]) % 256>>)])
    IN  MsElement(163, MsElement(160, MsElement(161, MsElement(128, MsText(3)))
                                          \o MsElement(160, items)))

----------------------------------------------------------------------------
(* The cases *)

MsPdu(n) == [i \in 1..n |-> i % 256]

MsInit ==
    \/ msCase \in [kind : {"frame"}, n : MsLengths, cut : 0..3]
    \/ msCase \in [kind : {"request"}, d : MsNames, i : MsNames, data : MsDatas]
    \/ \E size \in MsSizes, opts \in MsOptions : \E incl \in SUBSET (0..size - 1) :
           msCase = [kind |-> "report", size |-> size, opts |-> opts, incl |-> incl]
MsNext == UNCHANGED msCase
MsSpec == MsInit /\ [][MsNext]_msCase

----------------------------------------------------------------------------
(* Properties *)

\* A PDU of any length that is wrapped, and followed by the beginning of another frame, is taken
\* from the receive buffer exactly as it was, the beginning stays there, and no part of the frame
\* is taken before the last byte has come.
MsFrameReadsBack ==
    msCase.kind = "frame" =>
        LET f == MsWrap(MsPdu(msCase.n))
            behind == SubSeq(f, 1, msCase.cut)
            t == MsTake(f \o behind)
        IN  /\ t.ok /\ t.rest = behind
            /\ MsUnwrap(t.payload).ok /\ MsUnwrap(t.payload).content = MsPdu(msCase.n)
            /\ ~MsTake(SubSeq(f, 1, Len(f) - 1)).ok

\* Reference: the bytes inside nested elements, each of which fills the one around it.
MsInside(b, tags) ==
    FoldLeft(LAMBDA acc, tag : LET t == MsTlv(acc, tag)
                               IN  IF acc = <<>> THEN <<>>
                                   ELSE IF ~t.ok THEN <<>>
                                   ELSE IF t.rest # <<>> THEN <<>> ELSE t.content,
             b, tags)
MsReadable(d, i) ==
    LET body == MsInside(MsRead(7, d, i), <<160>>)
        names == MsInside(SubSeq(body, 4, Len(body)), <<164, 161, 160, 48, 160, 161>>)
    IN  names = <<26, d>> \o MsText(d) \o <<26, i>> \o MsText(i)
MsWritable(d, i, n) ==
    LET body == MsInside(MsWrite(7, d, i, MsText(n)), <<160>>)
        inner == MsInside(SubSeq(body, 4, Len(body)), <<165>>)
        list == MsTlv(inner, 160)
    IN  /\ inner # <<>> /\ list.ok
        /\ MsInside(list.content, <<48, 160, 161>>)
               = <<26, d>> \o MsText(d) \o <<26, i>> \o MsText(i)
        /\ MsInside(list.rest, <<160>>) = MsText(n)

\* A device that reads a request element by element finds the two names, and the data of a write,
\* as long as the request stays within the short form of a length.
MsRequestRead ==
    msCase.kind = "request" =>
        LET n == MsNameLen(msCase.d, msCase.i)
        IN  /\ 15 + n < 128 => MsReadable(msCase.d, msCase.i)
            /\ 15 + n + msCase.data < 128 => MsWritable(msCase.d, msCase.i, msCase.data)

\* Whatever optional fields a report carries and whichever elements it includes, each value is
\* given to the element it belongs to.
MsReportRead ==
    msCase.kind = "report" =>
        LET r == MsParseReport(MsReport(msCase.opts, msCase.size, msCase.incl))
        IN  /\ r.ok /\ Range(r.indices) = msCase.incl
            /\ \A k \in DOMAIN r.indices : r.values[k] = MsValue(r.indices[k])

-----------------------------------------------------------------------------
(*------------------------------ ZigbeeStream -----------------------------*)
(***************************************************************************)
(* The byte stream from a Zigbee gateway to comsrv: attribute reports in   *)
(* raw frames, [length:2][type:1][payload][checksum:1], in pieces of any   *)
(* size. The event loop appends a piece to its buffer and decodes frames   *)
(* until one is incomplete or one cannot be decoded.                       *)
(***************************************************************************)

CONSTANTS ZbDevices,  \* devices, as the lowest byte of their address
          ZbMapped,   \* those a point is configured for
          ZbFrames    \* number of frames in the stream

VARIABLES
    zbSent,    \* the frames the gateway sends
    zbLeft,    \* their bytes that have not been read
    zbBuf,     \* buf of the event loop
    zbTold,    \* data points sent to the subscribers
    zbErrors,  \* decode errors counted
    zbCut      \* the last decoding ended at an error

zbVars == <<zbSent, zbLeft, zbBuf, zbTold, zbErrors, zbCut>>

\* checksum()
ZbChecksum(s) == FoldLeft(LAMBDA acc, b : acc ^^ b, 0, s)

\* The gateway (external): a report of a device, one hit on the way, an empty frame, or a frame of
\* another type.
ZbFramed(region) ==
    <<Len(region) \div 256, Len(region) % 256>> \o region \o <<ZbChecksum(region)>>
ZbReport(d) == ZbFramed(<<1, d, 0, 0, 0, 0, 0, 0, 0, 1, 2, 4, 0, 0, 32, d + 10>>)
ZbSendable ==
    {[kind |-> "report", dev |-> d, bytes |-> ZbReport(d)] : d \in ZbDevices}
    \cup {[kind |-> "hit", dev |-> d, bytes |-> [ZbReport(d) EXCEPT ![18] = 0]] : d \in ZbDevices}
    \cup {[kind |-> "empty", dev |-> 0, bytes |-> <<0, 0>>],
          [kind |-> "announce", dev |-> 0, bytes |-> ZbFramed(<<2, 1, 0, 0, 0, 0, 0, 0, 0, 5, 0>>)]}

\* Mutant: the checksum is not compared.
ZbDecodeUnchecked(buf) ==
    LET len == buf[1] * 256 + buf[2]
        region == SubSeq(buf, 3, 2 + len)
        rest == SubSeq(buf, 4 + len, Len(buf))
        payload == Tail(region)
    IN  IF Len(buf) < 4 THEN [is |-> "more", rest |-> buf]
        ELSE IF len = 0 THEN [is |-> "error", rest |-> SubSeq(buf, 3, Len(buf))]
        ELSE IF Len(buf) < len + 3 THEN [is |-> "more", rest |-> buf]
        ELSE CASE region[1] = 1 /\ Len(payload) < 13 -> [is |-> "error", rest |-> rest]
               [] region[1] = 2 /\ Len(payload) < 10 -> [is |-> "error", rest |-> rest]
               [] region[1] = 3 /\ Len(payload) < 2 -> [is |-> "error", rest |-> rest]
               [] region[1] = 1 -> [is |-> "report", rest |-> rest, dev |-> payload[1],
                                    value |-> payload[15]]
               [] OTHER -> [is |-> "other", rest |-> rest]

\* decode(): "more" if the buffer holds no complete frame, else the frame and the rest.
ZbDecode(buf) ==
    LET len == buf[1] * 256 + buf[2]
        region == SubSeq(buf, 3, 2 + len)
        rest == SubSeq(buf, 4 + len, Len(buf))
        payload == Tail(region)
    IN  IF Len(buf) < 4 THEN [is |-> "more", rest |-> buf]
        ELSE IF len = 0 THEN [is |-> "error", rest |-> SubSeq(buf, 3, Len(buf))]
        ELSE IF Len(buf) < len + 3 THEN [is |-> "more", rest |-> buf]
        ELSE IF ZbChecksum(region) # buf[3 + len] THEN [is |-> "error", rest |-> rest]
        ELSE CASE region[1] = 1 /\ Len(payload) < 13 -> [is |-> "error", rest |-> rest]
               [] region[1] = 2 /\ Len(payload) < 10 -> [is |-> "error", rest |-> rest]
               [] region[1] = 3 /\ Len(payload) < 2 -> [is |-> "error", rest |-> rest]
               [] region[1] = 1 -> [is |-> "report", rest |-> rest, dev |-> payload[1],
                                    value |-> payload[15]]
               [] OTHER -> [is |-> "other", rest |-> rest]

\* handle_frame(): a report of a configured point becomes an update.
ZbHandled(told, f) ==
    IF f.is = "report" /\ f.dev \in ZbMapped THEN Append(told, <<f.dev, f.value>>) ELSE told

\* The decoding after a read.
RECURSIVE ZbDrain(_, _)
ZbDrain(buf, told) ==
    LET f == ZbDecode(buf)
    IN  CASE f.is = "more" -> [buf |-> buf, told |-> told, cut |-> FALSE]
          [] f.is = "error" -> [buf |-> f.rest, told |-> told, cut |-> TRUE]
          [] OTHER -> ZbDrain(f.rest, ZbHandled(told, f))

ZbBytes(frames) == FlattenSeq([i \in DOMAIN frames |-> frames[i].bytes])

ZbInit ==
    /\ zbSent \in [1..ZbFrames -> ZbSendable]
    /\ zbLeft = ZbBytes(zbSent)
    /\ zbBuf = <<>> /\ zbTold = <<>> /\ zbErrors = 0 /\ zbCut = FALSE

\* read_buf() returns a piece.
ZbRead ==
    /\ zbLeft # <<>>
    /\ \E n \in 1..Len(zbLeft) :
          LET r == ZbDrain(zbBuf \o SubSeq(zbLeft, 1, n), zbTold)
          IN  /\ zbBuf' = r.buf /\ zbTold' = r.told /\ zbCut' = r.cut
              /\ zbErrors' = zbErrors + (IF r.cut THEN 1 ELSE 0)
              /\ zbLeft' = SubSeq(zbLeft, n + 1, Len(zbLeft))
    /\ UNCHANGED zbSent

ZbNext == ZbRead
ZbSpec == ZbInit /\ [][ZbNext]_zbVars

----------------------------------------------------------------------------

\* What the subscribers have been told is a beginning of the intact reports of configured
\* devices, in the order they were sent: none is invented, lost, doubled or taken from the bytes
\* of a frame that was hit, however the stream is cut.
ZbIntactOnly ==
    LET good == SelectSeq(zbSent, LAMBDA f : f.kind = "report" /\ f.dev \in ZbMapped)
    IN  IsPrefix(zbTold, [i \in DOMAIN good |-> <<good[i].dev, good[i].dev + 10>>])

=============================================================================
