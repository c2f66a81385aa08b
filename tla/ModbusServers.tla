---------------------------- MODULE ModbusServers ----------------------------
(***************************************************************************)
(* The Modbus slaves of the repository: the mock server the adapter is     *)
(* tested against (protocols/adapters/modbus_mock.rs), and the simulator's *)
(* TCP and RTU servers (tools/simulator server.rs, rtu_server.rs) with     *)
(* their coil store, writable registers and device state machine.  A       *)
(* client sends a request, the network may deliver it in two pieces, a     *)
(* server task reads it, changes its stores and answers.  Addresses and    *)
(* registers keep their 16 bits, coils are packed into bytes.              *)
(***************************************************************************)
EXTENDS Integers, Sequences, FiniteSets, SequencesExt, Functions, TLC

CONSTANTS MvKinds,      \* subset of {"mock", "tcp", "rtu"}
          MvConns,      \* connections of a TCP server
          MvRequests,   \* the requests: [fc, unit, addr, qty, vals]
          MvTotal,      \* bound: requests
          MvSplit,      \* the network may split a request
          MvFaulty      \* the simulator's scenario injects faults

VARIABLES mvKind,     \* which server
          mvReq,      \* connection -> {} or {request on its way}
          mvPc,       \* connection -> "idle", "sent", "split", "trigger", "lost", "answered"
          mvBits,     \* <<space, unit, address>> -> coil or discrete input
          mvRegs,     \* <<space, unit, address>> -> register
          mvState,    \* the device's state machine
          mvInject,   \* the mock's error injections: sequence of [fc, count]
          mvAnswer,   \* connection -> the answer
          mvFault,    \* connection -> the fault drawn for its request
          mvLeft, mvTold, mvFailed

mvVars == <<mvKind, mvReq, mvPc, mvBits, mvRegs, mvState, mvInject, mvAnswer, mvFault, mvLeft, mvTold, mvFailed>>

MvWord == 65536
MvOnAddr == 0                        \* the coil that starts and stops the device
MvBit(b, i) == (b \div (2^i)) % 2 = 1

(* CoilStore::pack_coils_to_bytes and unpack_bytes_to_coils *)
MvCeil8(n) == (n + 7) \div 8
MvPack(coils) ==
  [b \in 1..MvCeil8(Len(coils)) |->
     FoldSeq(LAMBDA x, y : x + y, 0,
             [i \in 1..8 |-> LET k == 8 * (b - 1) + i
                             IN  IF k <= Len(coils) /\ coils[k] THEN 2^(i - 1) ELSE 0])]
MvUnpack(bytes, qty) == [i \in 1..qty |-> MvBit(bytes[((i - 1) \div 8) + 1], (i - 1) % 8)]

(* to_be_bytes and from_be_bytes of the registers *)
MvBytes(words) == FlattenSeq([i \in 1..Len(words) |-> <<words[i] \div 256, words[i] % 256>>])
MvWords(bytes) == [i \in 1..(Len(bytes) \div 2) |-> 256 * bytes[2 * i - 1] + bytes[2 * i]]

(* The mock has one device, the simulator one per unit. *)
MvUnit(r) == IF mvKind = "mock" THEN 0 ELSE r.unit
MvAddrs(r) == [i \in 1..r.qty |-> (r.addr + i - 1) % MvWord]

MvInit ==
  /\ mvKind \in MvKinds
  /\ mvReq = [c \in MvConns |-> {}] /\ mvPc = [c \in MvConns |-> "idle"]
  /\ mvBits = <<>> /\ mvRegs = <<>>
  /\ mvState = "standby" /\ mvInject = <<>>
  /\ mvAnswer = [c \in MvConns |-> <<>>] /\ mvFault = [c \in MvConns |-> "none"]
  /\ mvLeft = MvTotal /\ mvTold = 0 /\ mvFailed = 0

(* ----------------------------- the requests ---------------------------- *)

MvException(r, code) == <<r.fc + 128, code>>

(* The quantities and coil values a server refuses. *)
MvReadLimit(r) == \/ r.fc \in {1, 2} /\ (r.qty = 0 \/ r.qty > 2000)
                  \/ r.fc \in {3, 4} /\ (r.qty = 0 \/ r.qty > 125)
                  \/ r.fc = 5 /\ r.vals[1] \notin {0, 65280}
MvWriteLimit(r) == \/ r.fc = 15 /\ (r.qty = 0 \/ r.qty > 1968)
                   \/ r.fc = 16 /\ (r.qty = 0 \/ r.qty > 123)
MvBadValue(r) == MvReadLimit(r) \/ (mvKind = "mock" /\ MvWriteLimit(r))

(* read_coils, read_discrete_inputs: absent is off. *)
MvReadBits(r) ==
  LET space == IF r.fc = 1 THEN "coil" ELSE "input"
      at(i) == <<space, MvUnit(r), MvAddrs(r)[i]>>
  IN  [i \in 1..r.qty |-> IF at(i) \in DOMAIN mvBits THEN mvBits[at(i)] ELSE FALSE]

(* The mock keeps holding and input registers apart; the simulator serves  *)
(* both from what was written, else from the unit's generators, else from  *)
(* those of unit 1.                                                        *)
MvGenerated(unit, addr) == (300 + addr) % MvWord

MvReadRegs(r) ==
  LET space == IF mvKind = "mock" /\ r.fc = 4 THEN "inreg" ELSE "reg"
      at(i) == <<space, MvUnit(r), MvAddrs(r)[i]>>
  IN  [i \in 1..r.qty |->
         IF at(i) \in DOMAIN mvRegs THEN mvRegs[at(i)]
         ELSE IF mvKind = "mock" THEN 0 ELSE MvGenerated(r.unit, MvAddrs(r)[i])]

MvWriteBits(r, values) ==
  [i \in {<<"coil", MvUnit(r), MvAddrs(r)[k]>> : k \in 1..r.qty} |->
     values[CHOOSE k \in 1..r.qty : i[3] = MvAddrs(r)[k]]] @@ mvBits

MvWriteRegs(r, values) ==
  [i \in {<<"reg", MvUnit(r), MvAddrs(r)[k]>> : k \in 1..r.qty} |->
     values[CHOOSE k \in 1..r.qty : i[3] = MvAddrs(r)[k]]] @@ mvRegs

(* What the client sent, as the bytes of the PDU. *)
MvSent(r) == IF r.fc = 15 THEN MvPack([i \in 1..r.qty |-> r.vals[i] = 1])
             ELSE MvBytes(r.vals)

(* What a request does to the stores and answers, once it is accepted. *)
MvRead(c, r) ==
  /\ r.fc \in {1, 2, 3, 4}
  /\ mvAnswer' = [mvAnswer EXCEPT ![c] =
                    <<r.fc, IF r.fc \in {1, 2} THEN MvPack(MvReadBits(r)) ELSE MvBytes(MvReadRegs(r))>>]
  /\ UNCHANGED <<mvBits, mvRegs>>

MvWriteCoils(c, r) ==
  /\ r.fc \in {5, 15}
  /\ mvBits' = MvWriteBits(r, IF r.fc = 5 THEN <<r.vals[1] = 65280>> ELSE MvUnpack(MvSent(r), r.qty))
  /\ mvAnswer' = [mvAnswer EXCEPT ![c] = <<r.fc, r.addr>>]
  /\ UNCHANGED mvRegs

MvWriteRegisters(c, r) ==
  /\ r.fc \in {6, 16}
  /\ mvRegs' = MvWriteRegs(r, MvWords(MvSent(r)))
  /\ mvAnswer' = [mvAnswer EXCEPT ![c] = <<r.fc, r.addr>>]
  /\ UNCHANGED mvBits

MvRefuse(c, r) ==
  /\ r.fc \notin {1, 2, 3, 4, 5, 6, 15, 16} \/ MvBadValue(r)
  /\ mvAnswer' = [mvAnswer EXCEPT ![c] =
                    MvException(r, IF r.fc \in {1, 2, 3, 4, 5, 6, 15, 16} THEN 3 ELSE 1)]
  /\ UNCHANGED <<mvBits, mvRegs>>

MvAccept(c, r) == ~MvBadValue(r) /\ (MvRead(c, r) \/ MvWriteCoils(c, r) \/ MvWriteRegisters(c, r))

(* process_request of the mock, of the TCP server (whose coil writes also  *)
(* reach the state machine) and process_rtu_request.                       *)
MvMockProcess(c, r) ==
  /\ mvKind = "mock" /\ (MvRefuse(c, r) \/ MvAccept(c, r))
  /\ mvPc' = [mvPc EXCEPT ![c] = "answered"]
MvTcpProcess(c, r) ==
  /\ mvKind = "tcp"
  /\ \/ MvRefuse(c, r) /\ mvPc' = [mvPc EXCEPT ![c] = "answered"]
     \/ /\ MvAccept(c, r)
        /\ mvPc' = [mvPc EXCEPT ![c] = IF r.fc \in {5, 15} THEN "trigger" ELSE "answered"]
MvRtuProcess(c, r) ==
  /\ mvKind = "rtu" /\ (MvRefuse(c, r) \/ MvAccept(c, r))
  /\ mvPc' = [mvPc EXCEPT ![c] = "answered"]

(* ----------------------------- the exchange ---------------------------- *)

MvSend(c) ==
  /\ mvPc[c] \in {"idle", "answered"} /\ mvLeft > 0
  /\ \E r \in MvRequests : /\ mvKind = "mock" => r.addr + r.qty <= MvWord
                          /\ mvReq' = [mvReq EXCEPT ![c] = {r}]
  /\ mvFault' = [mvFault EXCEPT ![c] = "none"]
  /\ \E how \in {"sent"} \cup (IF MvSplit THEN {"split"} ELSE {}) : mvPc' = [mvPc EXCEPT ![c] = how]
  /\ mvLeft' = mvLeft - 1 /\ mvAnswer' = [mvAnswer EXCEPT ![c] = <<>>]
  /\ UNCHANGED <<mvKind, mvBits, mvRegs, mvState, mvInject, mvTold, mvFailed>>

(* The mock waits for the rest (read_exact). *)
MvMockRest(c) == mvKind = "mock" /\ mvPc' = [mvPc EXCEPT ![c] = "sent"]
(* The simulator drops a short read and takes the rest for a header. *)
MvTcpRest(c) == mvKind = "tcp" /\ mvPc' = [mvPc EXCEPT ![c] = "lost"]
(* On the serial line the pause ends the frame and its checksum fails. *)
MvRtuRest(c) == mvKind = "rtu" /\ mvPc' = [mvPc EXCEPT ![c] = "lost"]

MvRest(c) ==
  /\ mvPc[c] = "split"
  /\ MvMockRest(c) \/ MvTcpRest(c) \/ MvRtuRest(c)
  /\ UNCHANGED <<mvKind, mvReq, mvBits, mvRegs, mvState, mvInject, mvAnswer, mvFault, mvLeft, mvTold, mvFailed>>

(* inject_error on the mock, with a count that is not zero. *)
MvInjectError ==
  /\ mvKind = "mock" /\ mvInject = <<>> /\ mvTold = 0
  /\ \E fc \in {0, 3}, n \in 1..2 :
       mvInject' = <<[fc |-> fc, count |-> n]>> /\ mvTold' = n
  /\ UNCHANGED <<mvKind, mvReq, mvPc, mvBits, mvRegs, mvState, mvAnswer, mvFault, mvLeft, mvFailed>>

(* check_error_injection: the first that fits, removed at zero. *)
MvFits(r) == {i \in 1..Len(mvInject) : mvInject[i].fc \in {0, r.fc}}

MvServe(c) ==
  /\ mvPc[c] = "sent"
  /\ \E r \in mvReq[c] :
       IF MvFits(r) # {}
       THEN LET i == CHOOSE x \in MvFits(r) : \A y \in MvFits(r) : x <= y
                n == mvInject[i].count - 1
            IN  /\ mvInject' = IF n = 0 THEN RemoveAt(mvInject, i)
                               ELSE [mvInject EXCEPT ![i].count = n]
                /\ mvAnswer' = [mvAnswer EXCEPT ![c] = MvException(r, 6)]
                /\ mvFailed' = mvFailed + 1
                /\ mvPc' = [mvPc EXCEPT ![c] = "answered"]
                /\ UNCHANGED <<mvBits, mvRegs>>
       ELSE /\ MvMockProcess(c, r) \/ MvTcpProcess(c, r) \/ MvRtuProcess(c, r)
            /\ UNCHANGED <<mvInject, mvFailed>>
  /\ UNCHANGED <<mvKind, mvReq, mvState, mvFault, mvLeft, mvTold>>

(* check_faults and handle_fault, after the request is read: an exception  *)
(* instead of an answer, or thirty seconds of silence.                     *)
MvCode(fault) == CASE fault = "ConnectionDrop" -> 4 [] fault = "SlowResponse" -> 6
                   [] fault = "InvalidResponse" -> 3

MvDraw(c) ==
  /\ MvFaulty /\ mvKind = "tcp" /\ mvPc[c] = "sent" /\ mvFault[c] = "none"
  /\ \E fault \in {"ConnectionDrop", "SlowResponse", "InvalidResponse", "NoResponse"} :
       /\ mvFault' = [mvFault EXCEPT ![c] = fault]
       /\ IF fault = "NoResponse" THEN UNCHANGED <<mvPc, mvAnswer>>
          ELSE \E r \in mvReq[c] :
                 /\ mvPc' = [mvPc EXCEPT ![c] = "answered"]
                 /\ mvAnswer' = [mvAnswer EXCEPT ![c] = MvException(r, MvCode(fault))]
  /\ UNCHANGED <<mvKind, mvReq, mvBits, mvRegs, mvState, mvInject, mvLeft, mvTold, mvFailed>>

(* on_coil_write, for the coils of the request in order: true starts a     *)
(* device in standby, false stops a running one.                           *)
MvOnCoil(state, addr, value) ==
  IF addr = MvOnAddr /\ value /\ state = "standby" THEN "running"
  ELSE IF addr = MvOnAddr /\ ~value /\ state = "running" THEN "standby"
  ELSE state

MvTrigger(c) ==
  /\ mvPc[c] = "trigger"
  /\ \E r \in mvReq[c] :
       LET values == IF r.fc = 5 THEN <<r.vals[1] = 65280>> ELSE MvUnpack(MvSent(r), r.qty)
       IN  mvState' = IF r.unit # 1 THEN mvState
                      ELSE FoldLeft(LAMBDA s, k : MvOnCoil(s, MvAddrs(r)[k], values[k]),
                                    mvState, [k \in 1..r.qty |-> k])
  /\ mvPc' = [mvPc EXCEPT ![c] = "answered"]
  /\ UNCHANGED <<mvKind, mvReq, mvBits, mvRegs, mvInject, mvAnswer, mvFault, mvLeft, mvTold, mvFailed>>

MvNext == MvInjectError \/ \E c \in MvConns : MvSend(c) \/ MvRest(c) \/ MvServe(c) \/ MvDraw(c) \/ MvTrigger(c)
MvSpec == MvInit /\ [][MvNext]_mvVars

(* ----------------------------- properties ------------------------------ *)

(* A client that writes registers or coils and reads the same range back   *)
(* decodes what it wrote, through packed coils, big-endian registers and   *)
(* the wrap of the address (the mock's ranges end before the wrap).        *)
MvReadsBack ==
  [][\A c \in MvConns : \A w \in mvReq[c] : \A r \in MvRequests :
       (/\ mvPc[c] = "sent" /\ mvPc'[c] \in {"answered", "trigger"} /\ mvAnswer'[c][1] = w.fc
        /\ w.fc \in {15, 16} /\ w.qty > 0
        /\ r.fc = w.fc - (IF w.fc = 15 THEN 14 ELSE 13)
        /\ r.unit = w.unit /\ r.addr = w.addr /\ r.qty = w.qty)
       => IF r.fc = 1 THEN MvUnpack(MvPack(MvReadBits(r)'), r.qty) = [i \in 1..w.qty |-> w.vals[i] = 1]
          ELSE MvWords(MvBytes(MvReadRegs(r)')) = w.vals]_mvVars

(* An injection with a count fails that many requests, no more, whichever  *)
(* connection they come from.                                              *)
MvInjectedExactly ==
  mvFailed + FoldSeq(LAMBDA x, y : x + y, 0, [i \in 1..Len(mvInject) |-> mvInject[i].count]) = mvTold

=============================================================================
