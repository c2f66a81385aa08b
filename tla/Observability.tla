--------------------------- MODULE Observability ---------------------------
(***************************************************************************)
(* What is told of a request: the operation log, and the error its caller gets. *)
(***************************************************************************)
EXTENDS Integers, Sequences, FiniteSets, SequencesExt, TLC

-----------------------------------------------------------------------------
(*------------------------------ RequestAudit -----------------------------*)
(***************************************************************************)
(* The middleware in front of every handler: it reads a JSON body and puts *)
(* it back, runs the handler, reads the answer and puts it back, and writes *)
(* one row of the operation log, with secrets removed and long bodies cut. *)
(* The client may go away at any await, which drops the whole future.      *)
(***************************************************************************)

CONSTANTS RaBodies,    \* JSON bodies: trees as below
          RaRequests,  \* number of requests
          RaMaxRead,   \* 64 KB
          RaMaxShown,  \* length a preview is cut to
          RaTexts      \* texts of an answer: the widths of their characters

(* A JSON value is <<"leaf", v>>, <<"arr", sequence>> or <<"obj", sequence of
   <<key, value>>>>; a key is "k", or "s" for one that contains a sensitive word. *)

VARIABLES
    raReq,    \* the requests: [write, skip, auth, json, size, body, user]
    raPc,     \* where each is
    raSeen,   \* the body its handler saw: none or {body}
    raDone,   \* did the handler take effect?
    raShown,  \* the previews taken, and the answer's text: itself, what is kept of it, bytes cut
    raRows,   \* table operation_logs
    raFail    \* requests whose INSERT failed

raVars == <<raReq, raPc, raSeen, raDone, raShown, raRows, raFail>>

RaIds == 1..RaRequests

\* method and path decide write, skip and auth; size is none for a body of unknown length
RaKinds ==
    [write : BOOLEAN, skip : BOOLEAN, auth : BOOLEAN, json : BOOLEAN, size : {-1, 0, RaMaxRead, RaMaxRead + 1},
     body : RaBodies, user : BOOLEAN]

RaInit ==
    /\ raReq \in [RaIds -> {k \in RaKinds : (k.skip => ~k.auth) /\ (k.size <= 0 \/ k.size > RaMaxRead => k.body = CHOOSE b \in RaBodies : TRUE)}]
    /\ raPc = [i \in RaIds |-> "arrived"]
    /\ raSeen = [i \in RaIds |-> {}] /\ raDone = [i \in RaIds |-> FALSE]
    /\ raShown = [i \in RaIds |-> [req |-> {}, resp |-> {}, text |-> <<<<>>, <<>>, 0>>]]
    /\ raRows = <<>> /\ raFail = {}

-----------------------------------------------------------------------------
(* Previews. *)

\* redact_recursive
RECURSIVE RaRedact(_)
RaRedact(v) ==
    CASE v[1] = "obj" -> <<"obj", [i \in DOMAIN v[2] |->
                            <<v[2][i][1], IF v[2][i][1] = "s" THEN <<"leaf", "***">> ELSE RaRedact(v[2][i][2])>>]>>
      [] v[1] = "arr" -> <<"arr", [i \in DOMAIN v[2] |-> RaRedact(v[2][i])]>>
      [] OTHER -> v

\* preview_json_body
RaPreview(v) == IF v[1] = "leaf" THEN <<"omitted", "not an object or array">> ELSE RaRedact(v)

\* truncate_body, over the widths of the characters of a text: <<what is kept, bytes cut>>
RaWidth(t) == FoldSeq(+, 0, t)
RaTruncate(t, max) ==
    IF RaWidth(t) <= max THEN <<t, 0>>
    ELSE LET n == CHOOSE k \in 0..Len(t) :
                    /\ RaWidth(SubSeq(t, 1, k)) <= max
                    /\ k < Len(t) => RaWidth(SubSeq(t, 1, k + 1)) > max
         IN  <<SubSeq(t, 1, n), RaWidth(t) - RaWidth(SubSeq(t, 1, n))>>

\* capture_request_json and capture_response_json: what is shown
RaCapture(k) ==
    CASE ~k.json \/ k.size = 0 -> {}
      [] k.size > RaMaxRead -> {<<"omitted", "exceeds">>}
      [] k.size = -1 -> {<<"omitted", "size unknown">>}
      [] OTHER -> {RaPreview(k.body)}
RaReads(k) == k.json /\ k.size \in 1..RaMaxRead

-----------------------------------------------------------------------------
\* http_request_logger, first half; a request that is skipped goes straight on
RaBegin(i) ==
    /\ raPc[i] = "arrived"
    /\ raPc' = [raPc EXCEPT ![i] = IF raReq[i].skip THEN "plain" ELSE "run"]
    /\ \E read \in {raReq[i].write /\ ~raReq[i].skip /\ ~raReq[i].auth} :
         /\ raShown' = [raShown EXCEPT ![i].req = IF read THEN RaCapture(raReq[i]) ELSE {}]
         /\ \E fails \in IF read /\ RaReads(raReq[i]) THEN BOOLEAN ELSE {FALSE} :
              raSeen' = [raSeen EXCEPT ![i] = IF fails THEN {} ELSE {raReq[i].body}]
    /\ UNCHANGED <<raReq, raDone, raRows, raFail>>

\* next.run: a handler whose body did not arrive refuses the request
RaRun(i) ==
    /\ raPc[i] \in {"plain", "run"}
    /\ raPc' = [raPc EXCEPT ![i] = IF raPc[i] = "plain" THEN "answered" ELSE "ran"]
    /\ raDone' = [raDone EXCEPT ![i] = raSeen[i] # {}]
    /\ UNCHANGED <<raReq, raSeen, raShown, raRows, raFail>>

\* should_record (with a few GETs, which have no body); then the answer is read
\* and put back
RaRecorded(k) == k.write
RaAnswerRead(i) ==
    /\ raPc[i] = "ran"
    /\ raPc' = [raPc EXCEPT ![i] = IF RaRecorded(raReq[i]) THEN "record" ELSE "answered"]
    /\ \E t \in RaTexts :
         raShown' = [raShown EXCEPT
             ![i].resp = IF RaRecorded(raReq[i]) /\ ~raReq[i].auth THEN {RaPreview(raReq[i].body)} ELSE {},
             ![i].text = <<t>> \o RaTruncate(t, RaMaxShown)]
    /\ UNCHANGED <<raReq, raSeen, raDone, raRows, raFail>>

\* insert
RaRow(i) ==
    [of |-> i, user |-> raReq[i].user /\ raDone[i], done |-> raDone[i], req |-> raShown[i].req, resp |-> raShown[i].resp]
RaInsert(i) ==
    /\ raPc[i] = "record" /\ raPc' = [raPc EXCEPT ![i] = "answered"]
    /\ \/ raRows' = Append(raRows, RaRow(i)) /\ raFail' = raFail
       \/ raFail' = raFail \cup {i} /\ raRows' = raRows
    /\ UNCHANGED <<raReq, raSeen, raDone, raShown>>

\* The client goes away.
RaDropped(i) ==
    /\ raPc[i] \in {"arrived", "plain", "run", "ran", "record"}
    /\ raPc' = [raPc EXCEPT ![i] = "dropped"]
    /\ UNCHANGED <<raReq, raSeen, raDone, raShown, raRows, raFail>>

RaNext == \E i \in RaIds : RaBegin(i) \/ RaRun(i) \/ RaAnswerRead(i) \/ RaInsert(i) \/ RaDropped(i)

RaSpec == RaInit /\ [][RaNext]_raVars

RaTypeOK ==
    /\ \A i \in RaIds : raPc[i] \in {"arrived", "plain", "run", "ran", "record", "answered", "dropped"}
    /\ \A n \in DOMAIN raRows : raRows[n].of \in RaIds

-----------------------------------------------------------------------------
RECURSIVE RaHides(_, _)
\* Is w the value v with every value under a sensitive key, and nothing else, hidden?
RaHides(v, w) ==
    /\ v[1] = w[1]
    /\ v[1] = "leaf" => v = w
    /\ v[1] = "arr" => DOMAIN v[2] = DOMAIN w[2] /\ \A i \in DOMAIN v[2] : RaHides(v[2][i], w[2][i])
    /\ v[1] = "obj" =>
         /\ DOMAIN v[2] = DOMAIN w[2]
         /\ \A i \in DOMAIN v[2] :
              /\ v[2][i][1] = w[2][i][1]
              /\ IF v[2][i][1] = "s" THEN w[2][i][2] = <<"leaf", "***">> ELSE RaHides(v[2][i][2], w[2][i][2])

RaShownOk(i, p) == p[1] = "omitted" \/ (~raReq[i].auth /\ raReq[i].json /\ RaHides(raReq[i].body, p))

\* The operation log tells what was done: a request that changes something and
\* was answered left one row, saying truly whether it took effect, unless the
\* insertion failed; what the row shows of a body is the body the handler
\* received with every secret hidden, at whatever depth, and nothing of the
\* requests that log in.
RaTruthful ==
    /\ \A i \in RaIds :
         LET rows == {n \in DOMAIN raRows : raRows[n].of = i}
         IN  /\ raPc[i] = "answered" /\ raReq[i].write /\ ~raReq[i].skip => Cardinality(rows) = 1 \/ i \in raFail
             /\ Cardinality(rows) <= 1
    /\ \A n \in DOMAIN raRows :
         /\ raRows[n].done = raDone[raRows[n].of]
         /\ \A p \in raRows[n].req : RaShownOk(raRows[n].of, p)
         /\ raReq[raRows[n].of].auth => raRows[n].req = {} /\ raRows[n].resp = {}

\* truncate_body cuts between characters, keeps as much as fits, and says how
\* many bytes it left out.
RaCuts ==
    \A i \in RaIds :
        LET t == raShown[i].text[1]
            kept == RaWidth(raShown[i].text[2])
            cut == raShown[i].text[3]
        IN  /\ IsPrefix(raShown[i].text[2], t) /\ kept + cut = RaWidth(t)
            /\ kept <= RaMaxShown /\ (cut > 0 => kept > RaMaxShown - 3)

-----------------------------------------------------------------------------
(*------------------------------- ErrorPaths ------------------------------*)
(***************************************************************************)
(* How an error travels to the caller: a gateway error of an adapter, an   *)
(* error of the real-time database, of the rule engine or of the shared    *)
(* library is converted (impl From) into the service's own error and the   *)
(* service's error into the answer of its HTTP API, with a status, a code, *)
(* a hint and the advice to retry.  A message counts only for the words    *)
(* the conversions look for in it ("not found", "exists").                 *)
(***************************************************************************)

VARIABLES epErr,      \* the error in hand: <<layer, kind, words of its message>>
          epFirst,    \* the error it began as
          epAnswer    \* {} or {what the caller is told}

epVars == <<epErr, epFirst, epAnswer>>

(* ------------------------------ the layers ----------------------------- *)

EpGateway == {"Connection", "NotConnected", "ConnectionTimeout", "Protocol", "InvalidResponse",
              "Unsupported", "InvalidData", "DataConversion", "PointNotFound", "Config",
              "InvalidAddress", "Io", "ReadTimeout", "WriteTimeout", "Modbus", "Iec104", "Dnp3",
              "OpcUa", "Internal", "ChannelClosed"}
EpRtdb == {"KeyNotFound", "SerializationError", "ConnectionError", "InvalidDataType", "Other"}
EpRule == {"NotFound", "AlreadyExists", "InvalidFormat", "ParseError", "ExecutionError",
           "ConditionError", "ActionError", "DatabaseError", "SerializationError",
           "SchedulerError", "RtdbError", "RoutingError"}
EpVoltage ==
  {"Configuration", "InvalidConfig", "MissingConfig", "DatabaseNotFound", "Database", "Sqlite",
   "Redis", "QueryFailed", "Protocol", "Communication", "ConnectionFailed", "Timeout", "Modbus",
   "Calculation", "InvalidExpression", "TypeMismatch", "Processing", "NotFound", "Conflict",
   "Unauthorized", "Forbidden", "Validation", "InvalidParameter", "InstanceNotFound",
   "ProductNotFound", "ChannelNotFound", "PointNotFound", "RuleNotFound", "ResourceBusy",
   "AlreadyExists", "Io", "ParseError", "Serialization", "Deserialization", "ServiceUnavailable",
   "StartupFailed", "ShutdownError", "Runtime", "Internal", "HttpClient", "Unknown", "Other"}
EpComsrv == {"ConfigError", "IoError", "ProtocolError", "ConnectionError", "DataError",
             "TimeoutError", "StorageError", "ResourceError", "ChannelError", "PointError",
             "ValidationError", "PermissionError", "StateError", "BatchError", "InternalError"}

(* The comsrv errors made by name: channel_not_found, channel_exists,      *)
(* point_not_found, and the others, whose message says neither.            *)
EpMade == {<<"comsrv", "ChannelError", "not found">>, <<"comsrv", "ChannelError", "exists">>,
           <<"comsrv", "PointError", "not found">>}
          \cup {<<"comsrv", k, "">> : k \in EpComsrv}

EpInit ==
  /\ epErr \in ({"gateway"} \X EpGateway \X {""}) \cup ({"rtdb"} \X EpRtdb \X {""})
               \cup ({"rule"} \X EpRule \X {""}) \cup ({"voltage"} \X EpVoltage \X {""})
               \cup EpMade \cup {<<"sqlx", "RowNotFound", "">>, <<"sqlx", "Database", "">>}
  /\ epFirst = epErr /\ epAnswer = {}

(* impl From<GatewayError> for ComSrvError; the message of PointNotFound   *)
(* begins with a capital and is not matched by "not found".                *)
EpFromGateway(k) ==
  CASE k \in {"Connection", "NotConnected"} -> "ConnectionError"
    [] k \in {"ConnectionTimeout", "ReadTimeout", "WriteTimeout"} -> "TimeoutError"
    [] k = "ChannelClosed" -> "ChannelError"
    [] k \in {"Protocol", "InvalidResponse", "Modbus", "Iec104", "Dnp3", "OpcUa"} -> "ProtocolError"
    [] k \in {"InvalidData", "DataConversion"} -> "DataError"
    [] k = "PointNotFound" -> "PointError"
    [] k \in {"Config", "InvalidAddress"} -> "ConfigError"
    [] k = "Unsupported" -> "ValidationError"
    [] k = "Io" -> "IoError"
    [] k = "Internal" -> "InternalError"

(* impl From<VoltageError>, <RtdbError>, <sqlx::Error>, <RuleError> for    *)
(* ModSrvError                                                             *)
EpFromVoltage(k) ==
  CASE k = "Configuration" -> "ConfigError" [] k = "InvalidConfig" -> "InvalidConfig"
    [] k = "MissingConfig" -> "MissingConfig" [] k \in {"Database", "Sqlite"} -> "DatabaseError"
    [] k = "Redis" -> "RedisError" [] k = "Serialization" -> "SerializationError"
    [] OTHER -> "InternalError"
EpFromRtdb(k) ==
  CASE k = "ConnectionError" -> "RedisError" [] k = "SerializationError" -> "SerializationError"
    [] OTHER -> "InternalError"
EpFromSqlx(k) == IF k = "RowNotFound" THEN "InstanceNotFound" ELSE "DatabaseError"
EpFromRule(k) ==
  CASE k = "NotFound" -> "RuleNotFound" [] k = "AlreadyExists" -> "RuleExists"
    [] k = "InvalidFormat" -> "InvalidRule" [] k = "ParseError" -> "ParseError"
    [] k \in {"ExecutionError", "ConditionError", "ActionError"} -> "ExecutionError"
    [] k = "DatabaseError" -> "DatabaseError" [] k = "SerializationError" -> "SerializationError"
    [] k = "SchedulerError" -> "SchedulerError" [] k = "RtdbError" -> "RedisError"
    [] k = "RoutingError" -> "InternalError"

(* impl From<ComSrvError> for VoltageError: channel errors by their words. *)
EpFromComsrv(k, words) ==
  CASE k = "ConfigError" -> "Configuration" [] k = "IoError" -> "Io"
    [] k = "ProtocolError" -> "Protocol" [] k = "ConnectionError" -> "Communication"
    [] k \in {"DataError", "ValidationError"} -> "Validation" [] k = "TimeoutError" -> "Timeout"
    [] k = "StorageError" -> "Database" [] k = "ResourceError" -> "ResourceBusy"
    [] k = "ChannelError" -> CASE words = "not found" -> "ChannelNotFound"
                               [] words = "exists" -> "AlreadyExists"
                               [] OTHER -> "Processing"
    [] k = "PointError" -> "NotFound" [] k = "PermissionError" -> "Forbidden"
    [] k \in {"StateError", "BatchError", "InternalError"} -> "Internal"

EpConvert ==
  LET layer == epErr[1]
      k == epErr[2]
  IN  /\ epAnswer = {}
      /\ epErr' \in CASE layer = "gateway" -> {<<"comsrv", EpFromGateway(k), "">>}
                      [] layer = "rtdb" -> {<<"modsrv", EpFromRtdb(k), "">>, <<"rule", "RtdbError", "">>}
                      [] layer = "sqlx" -> {<<"modsrv", EpFromSqlx(k), "">>, <<"rule", "DatabaseError", "">>}
                      [] layer = "rule" -> {<<"modsrv", EpFromRule(k), "">>}
                      [] layer = "comsrv" -> {<<"voltage", EpFromComsrv(k, epErr[3]), "">>}
                      [] OTHER -> {}
      /\ UNCHANGED <<epFirst, epAnswer>>

(* The shared library's error in modsrv *)
EpIntoModsrv ==
  /\ epAnswer = {} /\ epErr[1] = "voltage" /\ epFirst[1] = "voltage"
  /\ epErr' = <<"modsrv", EpFromVoltage(epErr[2]), "">>
  /\ UNCHANGED <<epFirst, epAnswer>>

(* ------------------------------ the answer ----------------------------- *)

(* category() of VoltageError, ComSrvError and ModSrvError *)
EpVoltageCategory(k) ==
  CASE k \in {"Configuration", "InvalidConfig", "MissingConfig", "DatabaseNotFound"} -> "Configuration"
    [] k \in {"Database", "Sqlite", "Redis", "QueryFailed"} -> "Database"
    [] k \in {"Protocol", "Modbus"} -> "Protocol"
    [] k = "ConnectionFailed" -> "Connection"
    [] k \in {"Communication", "ServiceUnavailable", "HttpClient"} -> "Network"
    [] k = "Timeout" -> "Timeout"
    [] k \in {"Calculation", "InvalidExpression", "TypeMismatch", "Processing"} -> "Calculation"
    [] k \in {"Validation", "InvalidParameter"} -> "Validation"
    [] k \in {"NotFound", "InstanceNotFound", "ProductNotFound", "ChannelNotFound",
              "PointNotFound", "RuleNotFound"} -> "NotFound"
    [] k \in {"Conflict", "AlreadyExists"} -> "Conflict"
    [] k \in {"Unauthorized", "Forbidden"} -> "Permission"
    [] k = "ResourceBusy" -> "ResourceBusy"
    [] k \in {"Unknown", "Other"} -> "Unknown"
    [] OTHER -> "Internal"
EpComsrvCategory(k) ==
  CASE k = "ConfigError" -> "Configuration" [] k = "ProtocolError" -> "Protocol"
    [] k = "ConnectionError" -> "Connection" [] k \in {"DataError", "ValidationError"} -> "Validation"
    [] k = "TimeoutError" -> "Timeout" [] k = "StorageError" -> "Database"
    [] k = "ResourceError" -> "ResourceExhausted" [] k \in {"ChannelError", "PointError"} -> "NotFound"
    [] k = "PermissionError" -> "Permission" [] k = "StateError" -> "ResourceBusy"
    [] OTHER -> "Internal"
EpModsrvCategory(k) ==
  CASE k \in {"ConfigError", "InvalidConfig", "MissingConfig"} -> "Configuration"
    [] k \in {"DatabaseError", "RedisError"} -> "Database"
    [] k \in {"InstanceNotFound", "RuleNotFound"} -> "NotFound"
    [] k \in {"InstanceExists", "RuleExists"} -> "Conflict"
    [] k \in {"InvalidData", "InvalidRouting", "InvalidRule", "ParseError"} -> "Validation"
    [] k = "DispatchDegraded" -> "Network" [] k = "ChannelUnreachable" -> "ResourceBusy"
    [] OTHER -> "Internal"
EpCategory(e) == CASE e[1] = "voltage" -> EpVoltageCategory(e[2])
                   [] e[1] = "comsrv" -> EpComsrvCategory(e[2])
                   [] OTHER -> EpModsrvCategory(e[2])

(* The defaults of VoltageErrorTrait *)
EpRetryable(cat) == cat \in {"Network", "Timeout", "ResourceBusy"}
EpDelay(cat) == CASE cat = "Network" -> 1000 [] cat = "Timeout" -> 500
                  [] cat = "ResourceBusy" -> 2000 [] cat = "Connection" -> 1500 [] OTHER -> 0
EpStatus(cat) ==
  CASE cat = "Configuration" -> 400 [] cat = "Validation" -> 422 [] cat = "NotFound" -> 404
    [] cat = "Permission" -> 403 [] cat = "Conflict" -> 409 [] cat = "Timeout" -> 408
    [] cat \in {"Network", "ResourceBusy"} -> 503 [] cat = "ResourceExhausted" -> 429
    [] OTHER -> 500

(* into_http_response, and the services' conversions into AppError *)
EpRespond ==
  /\ epAnswer = {} /\ epErr[1] \in {"voltage", "comsrv", "modsrv"}
  /\ LET cat == EpCategory(epErr)
     IN  epAnswer' = {[status |-> EpStatus(cat), retry |-> EpRetryable(cat), delay |-> EpDelay(cat),
                       tries |-> IF EpRetryable(cat) THEN 3 ELSE 0]}
  /\ UNCHANGED <<epErr, epFirst>>

EpNext == EpConvert \/ EpIntoModsrv \/ EpRespond
EpSpec == EpInit /\ [][EpNext]_epVars

(* ----------------------------- properties ------------------------------ *)

(* The advice and the status agree along every path: the caller is told to *)
(* retry just when the status is one a client retries (408, 503), and then *)
(* also how long to wait and how often.                                    *)
EpRetryAgrees ==
  \A a \in epAnswer : /\ a.retry <=> a.status \in {408, 503}
                      /\ a.retry => a.delay > 0 /\ a.tries > 0

(* A failure of the bus, of the database or of the device's reply is never *)
(* blamed on the request.                                                  *)
EpFaultNotBlamed ==
  (\/ epFirst[1] = "gateway" /\ epFirst[2] \in {"Connection", "NotConnected", "ConnectionTimeout", "Io",
        "ReadTimeout", "WriteTimeout", "Protocol", "InvalidResponse", "Modbus", "Iec104", "OpcUa", "Dnp3"}
   \/ epFirst[1] = "rtdb" \/ epFirst = <<"sqlx", "Database", "">>)
  => \A a \in epAnswer : a.status \in {408, 500, 502, 503}

=============================================================================
