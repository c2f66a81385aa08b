--------------------------- MODULE PolledChannels ---------------------------
(***************************************************************************)
(* The adapters that ask a device and wait for its answer, one request after *)
(* the other on one line.                                                  *)
(***************************************************************************)
EXTENDS Integers, Sequences, FiniteSets, SequencesExt, FiniteSetsExt, TLC

-----------------------------------------------------------------------------
(*------------------------------- Dl645Poll -------------------------------*)
(***************************************************************************)
(* The polling of a DL/T 645 meter by comsrv's adapter: one request after  *)
(* the other for the standard points, each with retries, over a stream     *)
(* that may lose, delay or damage what the meter answers.                  *)
(*                                                                         *)
(* A frame is the point whose data identifier it carries, DlErr for the    *)
(* answer of a meter that refuses, or DlBad for one that does not decode   *)
(* (Dl645Codec).  An error answer is one byte shorter than the least that  *)
(* receive_frame() looks at.                                               *)
(***************************************************************************)

CONSTANTS DlPoints,   \* number of STANDARD_POINTS
          DlRetries,  \* retry_count
          DlLate      \* whether an answer may arrive after its request has timed out

ASSUME DlAssumption == DlPoints \in Nat \ {0} /\ DlRetries \in Nat /\ DlLate \in BOOLEAN

VARIABLES
    dlLink,    \* "down", "up", or "dead": connected in name only
    dlPoll,    \* the poll: its phase, the point it reads, attempts made, values and failures
    dlMeter,   \* requests on their way to the meter
    dlLine     \* answers that have arrived and were not read

dlVars == <<dlLink, dlPoll, dlMeter, dlLine>>

DlErr == 0
DlBad == DlPoints + 1
DlBacklog == DlPoints * (DlRetries + 1)   \* bound: requests and answers under way

DlRest == [at |-> "idle", p |-> 1, tries |-> 0, got |-> <<>>, failed |-> {}]

DlInit == dlLink = "down" /\ dlPoll = DlRest /\ dlMeter = <<>> /\ dlLine = <<>>

----------------------------------------------------------------------------
(* connect(), disconnect() *)

DlConnect ==
    /\ dlLink = "down" /\ dlPoll.at \in {"idle", "done"}
    /\ dlLink' = "up" /\ dlPoll' = DlRest /\ dlMeter' = <<>> /\ dlLine' = <<>>

DlDisconnect ==
    /\ dlLink # "down" /\ dlPoll.at \in {"idle", "done"}
    /\ dlLink' = "down"
    /\ UNCHANGED <<dlPoll, dlMeter, dlLine>>

DlPeerGone ==
    /\ dlLink = "up" /\ dlLink' = "dead"
    /\ UNCHANGED <<dlPoll, dlMeter, dlLine>>

----------------------------------------------------------------------------
(* poll_once(), read_standard_points(), read_single_di() *)

DlStart ==
    /\ dlPoll.at \in {"idle", "done"}
    /\ dlPoll' = IF dlLink = "down" THEN [DlRest EXCEPT !.at = "done", !.failed = 1..DlPoints]
                 ELSE [DlRest EXCEPT !.at = "send"]
    /\ UNCHANGED <<dlLink, dlMeter, dlLine>>

\* On to the next point, or the end of the poll.
DlAdvance(s) ==
    IF s.p = DlPoints THEN [s EXCEPT !.at = "done"]
    ELSE [s EXCEPT !.at = "send", !.p = @ + 1, !.tries = 0]

DlAttemptFailed(s) ==
    IF s.tries < DlRetries THEN [s EXCEPT !.at = "send", !.tries = @ + 1]
    ELSE DlAdvance([s EXCEPT !.failed = @ \cup {s.p}])

DlSend ==
    /\ dlPoll.at = "send" /\ (dlLink = "up" => Len(dlMeter) + Len(dlLine) < DlBacklog)
    /\ IF dlLink = "dead" THEN dlPoll' = DlAttemptFailed(dlPoll) /\ UNCHANGED dlMeter
       ELSE dlPoll' = [dlPoll EXCEPT !.at = "wait"] /\ dlMeter' = Append(dlMeter, dlPoll.p)
    /\ UNCHANGED <<dlLink, dlLine>>

\* The answer is not compared with the request: what decodes is the value of the point.
DlTaken(s, f) ==
    IF f \in 1..DlPoints THEN DlAdvance([s EXCEPT !.got = Append(@, <<s.p, f>>)])
    ELSE DlAttemptFailed(s)

\* receive_frame() returns the first frame of what it has read; the rest is dropped.
DlReceive(k) ==
    /\ dlPoll.at = "wait" /\ dlLink = "up"
    /\ k \in 1..Len(dlLine)
    /\ dlLine[1] # DlErr \/ k > 1
    /\ dlPoll' = DlTaken(dlPoll, dlLine[1])
    /\ dlLine' = SubSeq(dlLine, k + 1, Len(dlLine))
    /\ UNCHANGED <<dlLink, dlMeter>>

\* A lone error answer is read, waited upon and dropped.
DlTimeout ==
    /\ dlPoll.at = "wait"
    /\ dlLine \in {<<>>, <<DlErr>>} \/ dlLink = "dead"
    /\ DlLate \/ dlMeter = <<>> \/ dlLink = "dead"
    /\ dlPoll' = DlAttemptFailed(dlPoll)
    /\ dlLine' = <<>>
    /\ UNCHANGED <<dlLink, dlMeter>>

----------------------------------------------------------------------------
(* The meter and the line (external): an answer, a refusal, a damaged frame, or nothing *)

DlAnswer ==
    /\ dlMeter # <<>> /\ dlLink = "up"
    /\ dlMeter' = Tail(dlMeter)
    /\ dlLine' \in {dlLine, Append(dlLine, Head(dlMeter)), Append(dlLine, DlErr),
                    Append(dlLine, DlBad)}
    /\ UNCHANGED <<dlLink, dlPoll>>

DlNext ==
    \/ DlConnect \/ DlDisconnect \/ DlPeerGone \/ DlStart \/ DlSend
    \/ \E k \in 1..DlBacklog : DlReceive(k)
    \/ DlTimeout \/ DlAnswer

DlSpec == DlInit /\ [][DlNext]_dlVars

----------------------------------------------------------------------------
(* Properties *)

\* Types of the poll, the line and the meter.
DlTypeOK ==
    /\ dlLink \in {"down", "up", "dead"}
    /\ dlPoll.at \in {"idle", "send", "wait", "done"}
    /\ dlPoll.p \in 1..DlPoints /\ dlPoll.tries \in 0..DlRetries
    /\ \A i \in 1..Len(dlMeter) : dlMeter[i] \in 1..DlPoints
    /\ \A i \in 1..Len(dlLine) : dlLine[i] \in DlErr..DlBad

\* The value that a poll publishes for a point is the meter's answer for that point.
DlOwnAnswer == \A i \in 1..Len(dlPoll.got) : dlPoll.got[i][1] = dlPoll.got[i][2]

\* A poll that has ended has told of every standard point exactly once, as a value or as a
\* failure, whatever the line did.
DlAllTold ==
    dlPoll.at = "done" =>
        LET read == {dlPoll.got[i][1] : i \in 1..Len(dlPoll.got)}
        IN  /\ read \cup dlPoll.failed = 1..DlPoints
            /\ read \cap dlPoll.failed = {}
            /\ Cardinality(read) = Len(dlPoll.got)

-----------------------------------------------------------------------------
(*------------------------------- ModbusPoll ------------------------------*)
(***************************************************************************)
(* The polling of a Modbus device by comsrv's adapter.  Points are grouped *)
(* by slave and function code, sorted by register and cut into segments    *)
(* that one request reads; the device goes on changing its registers       *)
(* between two requests.                                                   *)
(*                                                                         *)
(* A register holds the number of the last change of the point it belongs  *)
(* to, so that a value put together from two changes can be told.          *)
(* Addresses are u16 and wrap, as in the release build.                    *)
(***************************************************************************)

CONSTANTS MbConfigs,   \* point lists: sequences of [fc, a, n] (function code, register, count)
          MbMaxGap,    \* max_gap
          MbMaxBatch,  \* max_batch_size
          MbChanges    \* bound: changes of the device's values

VARIABLES
    mbCfg,    \* config.points
    mbLink,   \* whether there is a client
    mbDev,    \* the device's registers
    mbClock,  \* changes made
    mbPoll    \* the poll under way or the last one

mbVars == <<mbCfg, mbLink, mbDev, mbClock, mbPoll>>

MbWrap(n) == n % 65536
MbMinus(a, b) == Max({0, a - b})          \* saturating_sub

MbIds == DOMAIN mbCfg
MbCovers(p) == p.a .. (p.a + p.n - 1)

\* get_or_init_grouped_points(): one group per function code, sorted by register (a stable
\* sort).  One slave stands for all: the key tells groups apart either way.
MbGroups(cfg) == {cfg[i].fc : i \in DOMAIN cfg}
MbGroup(cfg, fc) ==
    SetToSortSeq({i \in DOMAIN cfg : cfg[i].fc = fc},
                 LAMBDA i, j : cfg[i].a < cfg[j].a \/ (cfg[i].a = cfg[j].a /\ i < j))

\* build_register_segments(): a point joins the last segment or opens one.
MbJoin(cfg, segs, i) ==
    LET p     == cfg[i]
        end   == MbWrap(p.a + p.n)
        alone == Append(segs, [from |-> p.a, to |-> end, pts |-> <<i>>])
    IN  IF segs = <<>> THEN alone
        ELSE LET s == Last(segs)
             IN  IF MbMinus(p.a, s.to) <= MbMaxGap /\ MbMinus(end, s.from) <= MbMaxBatch
                 THEN Append(Front(segs), [s EXCEPT !.to = end, !.pts = Append(@, i)])
                 ELSE alone

\* read_coils_individually() for coils and inputs, read_registers_batched() for registers.
MbSegments(cfg, fc) ==
    LET single(i) == [from |-> cfg[i].a, to |-> MbWrap(cfg[i].a + 1), pts |-> <<i>>]
        g == MbGroup(cfg, fc)
    IN  IF fc \in {1, 2} THEN [k \in DOMAIN g |-> single(g[k])]
        ELSE FoldLeft(LAMBDA segs, i : MbJoin(cfg, segs, i), <<>>, g)

\* The registers a request returns (the client chunks requests above the device's limit).
MbRegisters(dev, fc, from, total) == [k \in 1..total |-> dev[<<fc, MbWrap(from + k - 1)>>]]

\* read_register_segment(): the points whose registers lie within what was read.
MbSlices(cfg, dev, fc, seg) ==
    LET total == MbWrap(seg.to - seg.from)
        regs  == MbRegisters(dev, fc, seg.from, total)
        off(i) == cfg[i].a - seg.from
    IN  {<<i, SubSeq(regs, off(i) + 1, off(i) + cfg[i].n)>> :
            i \in {j \in Range(seg.pts) : off(j) + cfg[j].n <= total}}

----------------------------------------------------------------------------

MbRest == [at |-> "idle", groups |-> {}, fc |-> 0, segs |-> <<>>, got |-> {}, batch |-> {},
           failed |-> {}, lost |-> FALSE]

\* The registers near the points: all that a segment can reach.
MbSpan == UNION {p.a .. (p.a + p.n + MbMaxGap) : p \in Range(mbCfg)}

MbInit ==
    /\ mbCfg \in MbConfigs
    /\ mbLink = FALSE /\ mbClock = 0 /\ mbPoll = MbRest
    /\ mbDev = [r \in {<<p.fc, MbWrap(a)>> : p \in Range(mbCfg), a \in MbSpan} |-> 0]

MbConnect ==
    /\ ~mbLink /\ mbPoll.at \in {"idle", "done"}
    /\ mbLink' \in BOOLEAN
    /\ UNCHANGED <<mbCfg, mbDev, mbClock, mbPoll>>

MbDisconnect ==
    /\ mbLink /\ mbPoll.at \in {"idle", "done"}
    /\ mbLink' = FALSE
    /\ UNCHANGED <<mbCfg, mbDev, mbClock, mbPoll>>

\* poll_once()
MbPollStart ==
    /\ mbPoll.at \in {"idle", "done"}
    /\ mbPoll' = IF ~mbLink THEN [MbRest EXCEPT !.at = "done", !.failed = MbIds]
                 ELSE [MbRest EXCEPT !.at = "next", !.groups = MbGroups(mbCfg)]
    /\ UNCHANGED <<mbCfg, mbLink, mbDev, mbClock>>

\* The groups come in the order of a hash map.
MbPollGroup ==
    /\ mbPoll.at = "next"
    /\ IF mbPoll.groups = {} THEN mbPoll' = [mbPoll EXCEPT !.at = "done"]
       ELSE \E fc \in mbPoll.groups :
                mbPoll' = [mbPoll EXCEPT !.at = "read", !.groups = @ \ {fc}, !.fc = fc,
                                         !.segs = MbSegments(mbCfg, fc), !.got = {}]
    /\ UNCHANGED <<mbCfg, mbLink, mbDev, mbClock>>

\* One request; an error of it is logged and the next segment is read.
MbReadSegment(ok) ==
    /\ mbPoll.at = "read" /\ mbPoll.segs # <<>>
    /\ mbPoll' = [mbPoll EXCEPT !.segs = Tail(@), !.lost = @ \/ ~ok,
                     !.got = IF ~ok THEN @
                             ELSE @ \cup MbSlices(mbCfg, mbDev, mbPoll.fc, Head(mbPoll.segs))]
    /\ UNCHANGED <<mbCfg, mbLink, mbDev, mbClock>>

\* Only a group of which nothing was read counts as failed.
MbGroupRead ==
    /\ mbPoll.at = "read" /\ mbPoll.segs = <<>>
    /\ mbPoll' = [mbPoll EXCEPT !.at = "next", !.got = {}, !.batch = @ \cup mbPoll.got,
                     !.failed = IF mbPoll.got # {} THEN @
                                ELSE @ \cup Range(MbGroup(mbCfg, mbPoll.fc))]
    /\ UNCHANGED <<mbCfg, mbLink, mbDev, mbClock>>

\* The device (external) changes the value of a point, all its registers at once.
MbChange(i) ==
    /\ mbClock < MbChanges
    /\ mbClock' = mbClock + 1
    /\ mbDev' = [r \in DOMAIN mbDev |->
                    IF r[1] = mbCfg[i].fc /\ r[2] \in MbCovers(mbCfg[i]) THEN mbClock' ELSE mbDev[r]]
    /\ UNCHANGED <<mbCfg, mbLink, mbPoll>>

MbNext ==
    \/ MbConnect \/ MbDisconnect \/ MbPollStart \/ MbPollGroup \/ MbGroupRead
    \/ \E ok \in BOOLEAN : MbReadSegment(ok)
    \/ \E i \in MbIds : MbChange(i)

MbSpec == MbInit /\ [][MbNext]_mbVars

----------------------------------------------------------------------------
(* Properties *)

\* Types of the poll and of what it has read.
MbTypeOK ==
    /\ mbCfg \in MbConfigs /\ mbLink \in BOOLEAN /\ mbClock \in 0..MbChanges
    /\ mbPoll.at \in {"idle", "next", "read", "done"}
    /\ mbPoll.failed \subseteq MbIds
    /\ \A x \in mbPoll.batch : x[1] \in MbIds /\ Len(x[2]) = mbCfg[x[1]].n

\* The points of a group that share no register with i.
MbApart(i) ==
    \A j \in MbIds \ {i} :
        mbCfg[j].fc = mbCfg[i].fc => MbCovers(mbCfg[i]) \cap MbCovers(mbCfg[j]) = {}

\* The registers of a published value were read together: a value that takes several
\* registers is never put together from two changes of the device, though the poll takes many
\* requests.
MbNotTorn ==
    \A x \in mbPoll.batch : MbApart(x[1]) => \A k \in 1..Len(x[2]) : x[2][k] = x[2][1]

\* Joining points into segments loses none: a poll without a failed request has a value of
\* every point that shares no register with another one.
MbSegmentsComplete ==
    (mbPoll.at = "done" /\ mbLink /\ ~mbPoll.lost /\ mbPoll.failed = {}) =>
        \A i \in MbIds : MbApart(i) => \E x \in mbPoll.batch : x[1] = i

-----------------------------------------------------------------------------
(*---------------------------- Iec61850Channel ----------------------------*)
(***************************************************************************)
(* A session of comsrv's IEC 61850 client: after the handshakes it reads   *)
(* the control model of every control point, enables the report control    *)
(* blocks, and then polls the points no report covers and executes         *)
(* commands, select before operate. One request is outstanding at a time;  *)
(* an answer is matched to it by nothing but its kind (the invoke id is    *)
(* read and dropped), so that an answer later than its timeout meets the   *)
(* next request.                                                           *)
(***************************************************************************)

CONSTANTS ImPoints,   \* number of polled points
          ImCtls,     \* number of control points, all with a ctlModel to detect
          ImMembers   \* the report control blocks: a sequence of sets of points

VARIABLES
    imAt,      \* what the channel does: "off", "idle", or the request it waits for
    imAsked,   \* requests the device has not answered, in order
    imLine,    \* frames received and not read
    imSubs,    \* subscribed_report_indices
    imSkip,    \* report_skip_set
    imEnabled, \* report control blocks the device has enabled for this session
    imClean,   \* no request of the session's setup has timed out
    imGot,     \* of the current poll: points and what was read for them
    imPend     \* pending_reports, and those drained at the start of the poll

imVars == <<imAt, imAsked, imLine, imSubs, imSkip, imEnabled, imClean, imGot, imPend>>

\* Requests: <<kind, number>>; "ena" and "ena01" enable a block under its name and with "01".
ImReads == {"ctl", "read", "sel"}
ImWrites == {"ena", "ena01", "gi", "oper"}
ImIdle == <<"idle", 0>>
ImOff == <<"off", 0>>
ImReport(r) == <<"report", r, "ok">>
ImBlocks == 1..Len(ImMembers)

ImInit ==
    /\ imAt = ImOff /\ imAsked = <<>> /\ imLine = <<>> /\ imSubs = {} /\ imSkip = {}
    /\ imEnabled = {} /\ imClean = TRUE /\ imGot = {} /\ imPend = <<>>

----------------------------------------------------------------------------
(* The order of the requests *)

ImWaiting == imAt[1] \in ImReads \cup ImWrites

\* subscribe_reports() goes on after block r; a session that is set up is idle.
ImAfterBlock(r) == IF r < Len(ImMembers) THEN <<"ena", r + 1>> ELSE ImIdle
ImAfterCtl(c) == IF c < ImCtls THEN <<"ctl", c + 1>> ELSE ImAfterBlock(0)

\* The next point a poll reads, skipping what reports cover.
ImNextPoint(p) ==
    LET left == {q \in p + 1..ImPoints : q \notin imSkip}
    IN  IF left = {} THEN ImIdle ELSE <<"read", CHOOSE q \in left : \A x \in left : q <= x>>

\* The channel goes on to what a says; if that is a request, it goes out.
ImGo(a, asked) ==
    /\ imAt' = a
    /\ imAsked' = IF a[1] \in ImReads \cup ImWrites THEN Append(asked, a) ELSE asked

\* go_disconnected(): the connection is dropped with all that is on it.
ImGoDisconnected ==
    /\ imAt' = ImOff /\ imAsked' = <<>> /\ imLine' = <<>> /\ imSubs' = {} /\ imSkip' = {}
    /\ imEnabled' = {} /\ imPend' = <<>>
    /\ UNCHANGED <<imClean, imGot>>

----------------------------------------------------------------------------
(* The channel *)

\* connect(): the handshakes, then the first request of the setup.
ImConnect ==
    /\ imAt = ImOff
    /\ ImGo(ImAfterCtl(0), <<>>)
    /\ imClean' = TRUE /\ imGot' = {}
    /\ UNCHANGED <<imLine, imSubs, imSkip, imEnabled, imPend>>

ImDisconnect == imAt = ImIdle /\ ImGoDisconnected

\* poll_once(): the reports that have come are drained; a confirmed answer among them means that
\* the session is out of step.
ImPoll ==
    /\ imAt = ImIdle
    /\ IF imSubs # {} /\ \E i \in DOMAIN imLine : imLine[i][1] # "report"
       THEN ImGoDisconnected
       ELSE /\ ImGo(ImNextPoint(0), imAsked)
            /\ imGot' = {}
            /\ imLine' = IF imSubs # {} THEN <<>> ELSE imLine
            /\ imPend' = IF imSubs # {} THEN <<>> ELSE imPend
            /\ UNCHANGED <<imSubs, imSkip, imEnabled, imClean>>

\* write_control(): a point with ctlModel 2 is selected first.
ImCommand(c, model) ==
    /\ imAt = ImIdle
    /\ ImGo(IF model = 2 THEN <<"sel", c>> ELSE <<"oper", c>>, imAsked)
    /\ UNCHANGED <<imLine, imSubs, imSkip, imEnabled, imClean, imGot, imPend>>

\* recv_mms() puts a report aside and waits on.
ImAside ==
    /\ ImWaiting /\ imLine # <<>> /\ imLine[1][1] = "report"
    /\ imPend' = Append(imPend, imLine[1]) /\ imLine' = Tail(imLine)
    /\ UNCHANGED <<imAt, imAsked, imSubs, imSkip, imEnabled, imClean, imGot>>

ImReadOk(a) == a[1] \in ImReads /\ a[3] = "ok"
ImWriteOk(a) == a[1] \in ImWrites /\ a[3] = "ok"

\* detect_ctrl_models(): an error that is not the device's ends the detection.
ImDetected(a) ==
    /\ imAt[1] = "ctl"
    /\ ImGo(IF a[1] \in ImReads THEN ImAfterCtl(imAt[2]) ELSE ImAfterBlock(0), imAsked)
    /\ UNCHANGED <<imSubs, imSkip, imEnabled, imClean, imGot, imPend>>

\* try_rcb_write_bool(RptEna): an unknown block is tried once more with the suffix 01.
ImSubscribed(a) ==
    /\ imAt[1] \in {"ena", "ena01"}
    /\ LET r == imAt[2]
       IN  CASE ImWriteOk(a) ->
                  /\ ImGo(<<"gi", r>>, imAsked)
                  /\ imSubs' = imSubs \cup {r} /\ imSkip' = imSkip \cup ImMembers[r]
             [] a[1] \in ImWrites /\ a[3] = "none" /\ imAt[1] = "ena" ->
                  ImGo(<<"ena01", r>>, imAsked) /\ UNCHANGED <<imSubs, imSkip>>
             [] OTHER -> ImGo(ImAfterBlock(r), imAsked) /\ UNCHANGED <<imSubs, imSkip>>
    /\ UNCHANGED <<imEnabled, imClean, imGot, imPend>>

\* The general interrogation is asked for; a refusal is only logged.
ImInterrogated ==
    /\ imAt[1] = "gi"
    /\ ImGo(ImAfterBlock(imAt[2]), imAsked)
    /\ UNCHANGED <<imSubs, imSkip, imEnabled, imClean, imGot, imPend>>

\* One read of a poll: a value or a data access error, and on to the next point; after the last
\* one the reports that came meanwhile are taken.
ImPolled(a) ==
    /\ imAt[1] = "read" /\ a[1] \in ImReads
    /\ ImGo(ImNextPoint(imAt[2]), imAsked)
    /\ imGot' = IF ImReadOk(a) THEN imGot \cup {<<imAt[2], <<a[1], a[2]>>>>} ELSE imGot
    /\ imPend' = IF imSubs # {} /\ imAt' = ImIdle THEN <<>> ELSE imPend
    /\ UNCHANGED <<imSubs, imSkip, imEnabled, imClean>>

\* parse_sbo_select_response(): only the name of the selected object selects.
ImSelected(a) ==
    /\ imAt[1] = "sel"
    /\ ImGo(IF a[1] = "sel" /\ a[3] = "ok" THEN <<"oper", imAt[2]>> ELSE ImIdle, imAsked)
    /\ UNCHANGED <<imSubs, imSkip, imEnabled, imClean, imGot, imPend>>

ImOperated(a) ==
    /\ imAt[1] = "oper" /\ ImWriteOk(a)
    /\ ImGo(ImIdle, imAsked)
    /\ UNCHANGED <<imSubs, imSkip, imEnabled, imClean, imGot, imPend>>

\* An answer that a poll or an operate cannot use drops the connection.
ImUnusable(a) ==
    /\ (imAt[1] = "read" /\ a[1] \notin ImReads) \/ (imAt[1] = "oper" /\ ~ImWriteOk(a))
    /\ ImGoDisconnected

\* The next frame is an answer.
ImAnswered ==
    /\ ImWaiting /\ imLine # <<>> /\ imLine[1][1] # "report"
    /\ LET a == imLine[1]
       IN  \/ /\ \/ ImDetected(a) \/ ImSubscribed(a) \/ ImInterrogated
                 \/ ImPolled(a) \/ ImSelected(a) \/ ImOperated(a)
              /\ imLine' = Tail(imLine)
           \/ ImUnusable(a)

\* request_timeout: in the setup it is only logged, afterwards it drops the connection.
ImTimeout ==
    /\ ImWaiting
    /\ IF imAt[1] \in {"ctl", "ena", "ena01", "gi"}
       THEN /\ ImGo(IF imAt[1] = "ctl" THEN ImAfterBlock(0) ELSE ImAfterBlock(imAt[2]), imAsked)
            /\ imClean' = FALSE
            /\ UNCHANGED <<imLine, imSubs, imSkip, imEnabled, imGot, imPend>>
       ELSE ImGoDisconnected

----------------------------------------------------------------------------
(* The device *)

\* It answers in order; enabling a block has its effect.
ImAnswer(how) ==
    /\ imAsked # <<>>
    /\ (how = "none" => Head(imAsked)[1] \in ImWrites)
    /\ imLine' = Append(imLine, <<Head(imAsked)[1], Head(imAsked)[2], how>>)
    /\ imAsked' = Tail(imAsked)
    /\ imEnabled' = IF Head(imAsked)[1] \in {"ena", "ena01"} /\ how = "ok"
                    THEN imEnabled \cup {Head(imAsked)[2]} ELSE imEnabled
    /\ UNCHANGED <<imAt, imSubs, imSkip, imClean, imGot, imPend>>

\* A report of an enabled block, one in flight at a time.
ImSend(r) ==
    /\ r \in imEnabled /\ imAt # ImOff
    /\ imPend = <<>> /\ \A i \in DOMAIN imLine : imLine[i][1] # "report"
    /\ imLine' = Append(imLine, ImReport(r))
    /\ UNCHANGED <<imAt, imAsked, imSubs, imSkip, imEnabled, imClean, imGot, imPend>>

ImNext ==
    \/ ImConnect \/ ImDisconnect \/ ImPoll \/ ImAside \/ ImAnswered \/ ImTimeout
    \/ \E c \in 1..ImCtls, model \in {1, 2} : ImCommand(c, model)
    \/ \E how \in {"ok", "none", "fail"} : ImAnswer(how)
    \/ \E r \in ImBlocks : ImSend(r)

ImSpec == ImInit /\ [][ImNext]_imVars

----------------------------------------------------------------------------
(* Properties *)

\* Types of the session.
ImTypeOK ==
    /\ imAt[1] \in ImReads \cup ImWrites \cup {"off", "idle"}
    /\ imSubs \subseteq ImBlocks /\ imEnabled \subseteq ImBlocks /\ imSkip \subseteq 1..ImPoints
    /\ imClean \in BOOLEAN

\* In a session whose setup met no timeout, what a poll publishes for a point is the device's
\* answer about this point: later timeouts drop the connection and the late answer with it.
ImOwnAnswer == imClean => \A g \in imGot : g[2] = <<"read", g[1]>>

\* In such a session, a point that polling leaves out belongs to a report which the device has
\* enabled on this connection: no point is without a source.
ImCovered == imClean => \A p \in imSkip : \E r \in imEnabled : p \in ImMembers[r]

-----------------------------------------------------------------------------
(*------------------------------- Voltage485 ------------------------------*)
(***************************************************************************)
(* comsrv's adapter for the RS-485 protocol of the Voltage meters: half    *)
(* duplex, so that an adapter may echo the request in front of the answer. *)
(* Every transaction drains the line first; the answer is taken without    *)
(* comparing its device with the one asked.                                *)
(*                                                                         *)
(* A frame is d for the answer of device d, -d for the request to d, and 0 *)
(* for one that does not parse (header, length or CRC).                    *)
(***************************************************************************)

CONSTANTS VfTargets,  \* number of poll_targets, one per device
          VfRetries,  \* retry_count
          VfLate      \* whether an answer may arrive after its timeout

ASSUME VfAssumption == VfTargets \in Nat \ {0} /\ VfRetries \in Nat /\ VfLate \in BOOLEAN

VARIABLES
    vfOpen,   \* serial is Some
    vfEcho,   \* the line echoes what is sent
    vfPoll,   \* the poll: phase, target, attempts made, values, failures
    vfAsked,  \* requests the devices have not answered
    vfLine    \* frames received and not read

vfVars == <<vfOpen, vfEcho, vfPoll, vfAsked, vfLine>>

VfRest == [at |-> "idle", p |-> 1, tries |-> 0, got |-> <<>>, failed |-> {}]

VfInit == vfOpen = FALSE /\ vfEcho \in BOOLEAN /\ vfPoll = VfRest /\ vfAsked = <<>> /\ vfLine = <<>>

VfConnect ==
    /\ ~vfOpen /\ vfPoll.at \in {"idle", "done"}
    /\ vfOpen' = TRUE /\ UNCHANGED <<vfEcho, vfPoll, vfAsked, vfLine>>

VfDisconnect ==
    /\ vfOpen /\ vfPoll.at \in {"idle", "done"}
    /\ vfOpen' = FALSE /\ vfAsked' = <<>> /\ vfLine' = <<>>
    /\ UNCHANGED <<vfEcho, vfPoll>>

\* poll_once(): without a port every target fails.
VfStart ==
    /\ vfPoll.at \in {"idle", "done"}
    /\ vfPoll' = IF vfOpen THEN [VfRest EXCEPT !.at = "send"]
                 ELSE [VfRest EXCEPT !.at = "done", !.failed = 1..VfTargets]
    /\ UNCHANGED <<vfOpen, vfEcho, vfAsked, vfLine>>

VfAdvance(s) ==
    IF s.p = VfTargets THEN [s EXCEPT !.at = "done"]
    ELSE [s EXCEPT !.at = "send", !.p = @ + 1, !.tries = 0]

\* query_device(): attempts 0..=retry_count.
VfFailed(s) ==
    IF s.tries < VfRetries THEN [s EXCEPT !.at = "send", !.tries = @ + 1]
    ELSE VfAdvance([s EXCEPT !.failed = @ \cup {s.p}])

\* Mutant: the line is not drained before a request.
VfNotDrained == vfLine

\* What is left on the line when the request goes out.
VfDrained == <<>>

VfSend ==
    /\ vfPoll.at = "send" /\ Len(vfAsked) < VfTargets * (VfRetries + 1)
    /\ vfLine' = IF vfEcho THEN Append(VfDrained, -vfPoll.p) ELSE VfDrained
    /\ vfAsked' = Append(vfAsked, vfPoll.p)
    /\ vfPoll' = [vfPoll EXCEPT !.at = "first"]
    /\ UNCHANGED <<vfOpen, vfEcho>>

\* transact() reads one frame, and another one if the first is the request itself.
VfTaken(s, f) ==
    CASE s.at = "first" /\ f = -s.p -> [s EXCEPT !.at = "second"]
      [] f > 0 -> VfAdvance([s EXCEPT !.got = Append(@, <<s.p, f>>)])
      [] OTHER -> VfFailed(s)

VfRead ==
    /\ vfPoll.at \in {"first", "second"} /\ vfLine # <<>>
    /\ vfPoll' = VfTaken(vfPoll, Head(vfLine))
    /\ vfLine' = Tail(vfLine)
    /\ UNCHANGED <<vfOpen, vfEcho, vfAsked>>

VfTimeout ==
    /\ vfPoll.at \in {"first", "second"} /\ vfLine = <<>>
    /\ VfLate \/ vfAsked = <<>>
    /\ vfPoll' = VfFailed(vfPoll)
    /\ UNCHANGED <<vfOpen, vfEcho, vfAsked, vfLine>>

\* The devices and the line (external): an answer, whole or behind noise, or nothing.
VfAnswer ==
    /\ vfAsked # <<>> /\ vfOpen
    /\ vfAsked' = Tail(vfAsked)
    /\ vfLine' \in {vfLine, Append(vfLine, Head(vfAsked)), Append(vfLine, 0),
                    vfLine \o <<0, Head(vfAsked)>>}
    /\ UNCHANGED <<vfOpen, vfEcho, vfPoll>>

VfNext ==
    VfConnect \/ VfDisconnect \/ VfStart \/ VfSend \/ VfRead \/ VfTimeout \/ VfAnswer

VfSpec == VfInit /\ [][VfNext]_vfVars

----------------------------------------------------------------------------

\* Types of the poll and the line.
VfTypeOK ==
    /\ vfPoll.at \in {"idle", "send", "first", "second", "done"}
    /\ vfPoll.p \in 1..VfTargets /\ vfPoll.tries \in 0..VfRetries
    /\ \A i \in 1..Len(vfLine) : vfLine[i] \in -VfTargets..VfTargets

\* The power published for a device was sent by that device: neither an echo, nor
\* the rest of an attempt that failed, nor the answer of the target before.
VfOwnAnswer == \A i \in 1..Len(vfPoll.got) : vfPoll.got[i][1] = vfPoll.got[i][2]

=============================================================================
