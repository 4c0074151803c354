---------------------------- MODULE DohClientProofs ----------------------------
(***************************************************************************)
(* Proofs about DohClient for any sequence of requests, any sessions, any  *)
(* time a cache is served for and any number of fetches and faults.        *)
(***************************************************************************)
EXTENDS DohClient, TLAPS

-----------------------------------------------------------------------------
(* Type correctness, and what a request holds.                             *)

Replies == [kind : Kinds \cup {"none", "granted", "refused", "bye"},
            id : Sessions \cup {NoSession},
            cookie : {Anonymous, NoSession}]

\* The answer to a request for a group is of one of the kinds a group can parse.
Answers == /\ reply \in Replies
           /\ pc \in {"sent", "read", "parse"} /\ phase \in {"first", "retry"}
              => reply.kind \in Kinds

\* Between two requests nothing is held but what a failure has left; on its way
\* a request holds its connection, and the file while it reads.
Held(r) == IF \/ pc \in {"send", "sent", "read"} /\ r \in Connection
              \/ pc = "read" /\ r = "file"
           THEN 1 ELSE 0
Resourceful ==
    pc # "crashed" =>
        /\ open["socket"] = failed["ctx"] + Held("socket")
        /\ open["SSL_CTX"] = failed["ssl"] + Held("SSL_CTX")
        /\ open["SSL"] = Held("SSL")
        /\ open["file"] = failed["read"] + Held("file")
        /\ open["reader"] = failed["login"]

TypeInv == TypeOK /\ Answers /\ Resourceful

\* The groups of the sequence, and the request that is being served.
LEMMA SequenceType ==
    /\ Len(Sequence) \in Nat \ {0}
    /\ DOMAIN Sequence = 1..Len(Sequence)
    /\ \A n \in 1..Len(Sequence) : Sequence[n] \in Asked
    /\ Asked \subseteq Groups
  <1>1. Len(Sequence) \in Nat \ {0} /\ DOMAIN Sequence = 1..Len(Sequence)
    BY SequenceAssumption
  <1>2. \A n \in 1..Len(Sequence) : Sequence[n] \in Groups
    BY SequenceAssumption
  <1>. QED
    BY <1>1, <1>2 DEF Asked

\* The state of one request.
LEMMA RequestType ==
    ASSUME TypeOK
    PROVE  /\ phase = "login" <=> request = "LOGIN"
           /\ phase = "logout" <=> request = "LOGOUT"
           /\ phase \in {"first", "retry"} =>
                 request = Sequence[at] /\ request \in Asked /\ request \in Groups
           /\ \A g \in Groups : request = g => phase \in {"first", "retry"}
  <1>1. Sequence[at] \in Asked /\ Sequence[at] \in Groups
    BY SequenceType DEF TypeOK
  <1>. QED
    BY <1>1 DEF TypeOK, request, Groups

\* What the seven ways to parse a group's answer have in common.
GroupParsed(g, v, s) ==
    /\ pc = "parse" /\ phase \in {"first", "retry"}
    /\ g = request /\ g \in Asked
    /\ v \in {"blank", "values"} /\ s \in {DOH_SUCCESS, DOH_RESPONSE, DOH_NEED_LOGIN}
    /\ v = "values" => \/ reply.kind \in {"data", "part"} /\ g # "SYSTEM_STATUS"
                       \/ g = "SYSTEM_STATUS" /\ v = data[g]
    /\ s = DOH_NEED_LOGIN => reply.kind = "login required"
    /\ Parsed(g, v, s)

ParseGroup == ParseRefused \/ ParseSupernova \/ ParseHost \/ ParseUser \/ ParseStorage
              \/ ParseAlerts \/ ParseAudits

\* Any of the seven ways sets a group's variables to values only from a message
\* that had some, and asks for a login only if the answer did.
LEMMA GroupIsParsed ==
    ASSUME TypeInv, ParseGroup
    PROVE  \E g, v, s : GroupParsed(g, v, s)
  <1>. USE DEF TypeInv, Answers, GroupParsed, Parsing, DOH_SUCCESS, DOH_RESPONSE,
              DOH_NEED_LOGIN
  <1>0. \A g \in Groups : Parsing(g) =>
           /\ pc = "parse" /\ phase \in {"first", "retry"} /\ g = request /\ g \in Asked
           /\ reply.kind \in Kinds /\ data[g] \in {"blank", "values"}
    BY RequestType DEF TypeOK
  <1>1. \A kind : /\ Outcome(kind) \subseteq {"blank", "values"}
                  /\ "values" \in Outcome(kind) => kind \in {"data", "part"}
    BY DEF Outcome
  <1>2. CASE ParseRefused
    <2>1. PICK g \in Groups :
             /\ Parsing(g)
             /\ Refused(reply.kind)
             /\ Parsed(g, IF Cleared(g) THEN "blank" ELSE data[g],
                       IF reply.kind = "login required" THEN DOH_NEED_LOGIN
                                                        ELSE DOH_SUCCESS)
      BY <1>2 DEF ParseRefused
    <2>. DEFINE v == IF Cleared(g) THEN "blank" ELSE data[g]
                s == IF reply.kind = "login required" THEN DOH_NEED_LOGIN ELSE DOH_SUCCESS
    <2>2. Parsed(g, v, s)
      BY <2>1
    <2>3. /\ v \in {"blank", "values"}
          /\ v = "values" => g = "SYSTEM_STATUS" /\ v = data[g]
      BY <1>0, <2>1 DEF Cleared
    <2>5. CASE reply.kind = "login required"
      <3>1. s \in {DOH_SUCCESS, DOH_RESPONSE, DOH_NEED_LOGIN}
        BY <2>5
      <3>. HIDE DEF v, s
      <3>. QED
        BY <1>0, <2>1, <2>2, <2>3, <2>5, <3>1
    <2>6. CASE reply.kind # "login required"
      <3>2. s = DOH_SUCCESS
        BY <2>6
      <3>. HIDE DEF v, s
      <3>1. s \in {DOH_SUCCESS, DOH_RESPONSE, DOH_NEED_LOGIN} /\ s # DOH_NEED_LOGIN
        BY <3>2
      <3>. QED
        BY <1>0, <2>1, <2>2, <2>3, <2>6, <3>1
    <2>. QED
      BY <2>5, <2>6
  <1>3. CASE ParseHost
    <2>1. GroupParsed("SYSTEM_STATUS", data["SYSTEM_STATUS"], DOH_SUCCESS)
      BY <1>0, <1>3 DEF ParseHost, Groups
    <2>. QED
      BY <2>1
  <1>4. CASE ParseSupernova
    <2>. DEFINE s == IF reply.kind = "error" THEN DOH_RESPONSE ELSE DOH_SUCCESS
    <2>1. PICK v \in Outcome(reply.kind) : Parsed("SUPERNOVA", v, s)
      BY <1>4 DEF ParseSupernova
    <2>2. s \in {DOH_SUCCESS, DOH_RESPONSE} /\ DOH_NEED_LOGIN \notin {DOH_SUCCESS, DOH_RESPONSE}
      OBVIOUS
    <2>. HIDE DEF s
    <2>3. GroupParsed("SUPERNOVA", v, s)
      BY <1>0, <1>1, <1>4, <2>1, <2>2 DEF ParseSupernova, Groups
    <2>. QED
      BY <2>3
  <1>5. CASE ParseUser
    <2>1. PICK v \in Outcome(reply.kind) : Parsed("SERIAL_NUMBER", v, DOH_SUCCESS)
      BY <1>5 DEF ParseUser
    <2>2. GroupParsed("SERIAL_NUMBER", v, DOH_SUCCESS)
      BY <1>0, <1>1, <1>5, <2>1 DEF ParseUser, Groups
    <2>. QED
      BY <2>2
  <1>6. CASE ParseStorage
    <2>1. PICK v \in Outcome(reply.kind) : Parsed("STORAGE_USED", v, DOH_SUCCESS)
      BY <1>6 DEF ParseStorage
    <2>2. GroupParsed("STORAGE_USED", v, DOH_SUCCESS)
      BY <1>0, <1>1, <1>6, <2>1 DEF ParseStorage, Groups
    <2>. QED
      BY <2>2
  <1>7. CASE ParseAlerts
    <2>1. PICK v \in Outcome(reply.kind) : Parsed("ALERT_TABLE", v, DOH_SUCCESS)
      BY <1>7 DEF ParseAlerts
    <2>2. GroupParsed("ALERT_TABLE", v, DOH_SUCCESS)
      BY <1>0, <1>1, <1>7, <2>1 DEF ParseAlerts, Groups
    <2>. QED
      BY <2>2
  <1>8. CASE ParseAudits
    <2>1. PICK v \in Outcome(reply.kind) : Parsed("AUDIT_TABLE", v, DOH_SUCCESS)
      BY <1>8 DEF ParseAudits
    <2>2. GroupParsed("AUDIT_TABLE", v, DOH_SUCCESS)
      BY <1>0, <1>1, <1>8, <2>1 DEF ParseAudits, Groups
    <2>. QED
      BY <2>2
  <1>. QED
    BY <1>2, <1>3, <1>4, <1>5, <1>6, <1>7, <1>8 DEF ParseGroup

\* A process starts well-typed and with nothing held.
LEMMA TypeInit == Init => TypeInv
  <1>. SUFFICES ASSUME Init PROVE TypeInv
    OBVIOUS
  <1>4. /\ now \in 0..MaxTime /\ fetches \in 0..MaxFetches /\ faults \in 0..MaxFaults
        /\ at \in DOMAIN Sequence
    BY SequenceType, LimitAssumption DEF Init
  <1>5. /\ reply.kind = "none" /\ reply.id = NoSession /\ reply.cookie = NoSession
    BY DEF Init, NoReply
  <1>6. /\ last \in [Asked -> {Never} \cup 0..MaxTime]
        /\ data \in [Asked -> {"blank", "values"}]
        /\ heard \in [Asked -> Kinds \cup {"nothing"}]
        /\ open \in [Resources -> Nat] /\ failed \in [LeakySteps -> Nat]
    BY DEF Init, Blank
  <1>1. TypeOK
    BY <1>4, <1>5, <1>6 DEF Init, TypeOK
  <1>2. Answers
    BY DEF Init, Answers, Replies, NoReply, NoSession
  <1>3. Resourceful
    BY DEF Init, Resourceful, Held, Resources, LeakySteps
  <1>. QED
    BY <1>1, <1>2, <1>3 DEF TypeInv

\* A step takes what it does not have or gives back what it has.
LEMMA HoldCounts ==
    ASSUME TypeOK, NEW S, NEW T, Hold(S, T),
           \A r \in Resources : r \in T => r \in S \/ open[r] > 0
    PROVE  /\ open' \in [Resources -> Nat]
           /\ \A r \in Resources :
                 open'[r] = open[r] + (IF r \in S THEN 1 ELSE 0) - (IF r \in T THEN 1 ELSE 0)
  <1>1. \A r \in Resources :
           /\ open[r] \in Nat
           /\ open'[r] = open[r] + (IF r \in S THEN 1 ELSE 0) - (IF r \in T THEN 1 ELSE 0)
    BY DEF TypeOK, Hold
  <1>2. \A r \in Resources : open'[r] \in Nat
    BY <1>1
  <1>3. open' = [r \in Resources |-> open'[r]]
    BY DEF Hold
  <1>. QED
    BY <1>1, <1>2, <1>3

\* A request that fails is counted as a fault, and at the step that fails.
LEMMA AbortCounts ==
    ASSUME TypeOK, NEW step, Abort(step)
    PROVE  /\ faults' \in 0..MaxFaults
           /\ failed' \in [LeakySteps -> Nat]
           /\ \A s \in LeakySteps :
                 failed'[s] = IF s = step THEN failed[s] + 1 ELSE failed[s]
           /\ pc' = "returned" /\ status' = DOH_RESPONSE
  <1>1. \A s \in LeakySteps : failed[s] \in Nat
    BY DEF TypeOK
  <1>2. failed' = [s \in LeakySteps |-> IF s = step THEN failed[s] + 1 ELSE failed[s]]
    BY DEF Abort
  <1>3. /\ failed' \in [LeakySteps -> Nat]
        /\ \A s \in LeakySteps : failed'[s] = IF s = step THEN failed[s] + 1 ELSE failed[s]
    BY <1>1, <1>2
  <1>4. faults' \in 0..MaxFaults
    BY LimitAssumption DEF TypeOK, Abort, Fault
  <1>. QED
    BY <1>3, <1>4 DEF Abort, Return

\* A connection that is not made leaves behind what its early return counts.
LEMMA OpenFailsType == TypeInv /\ OpenFails => TypeInv'
  <1>. SUFFICES ASSUME TypeInv, OpenFails PROVE TypeInv'
    OBVIOUS
  <1>. USE DEF TypeInv
  <1>1. PICK step \in {"socket", "connect", "ctx", "ssl", "handshake"} :
           Hold(Made(step), Closes(step)) /\ Abort(step)
    BY DEF OpenFails
  <1>2. Closes(step) \subseteq Made(step)
    BY DEF Closes, Made, Connection
  <1>3. /\ open' \in [Resources -> Nat]
        /\ \A r \in Resources :
              open'[r] = open[r] + (IF r \in Made(step) THEN 1 ELSE 0)
                                 - (IF r \in Closes(step) THEN 1 ELSE 0)
    BY <1>1, <1>2, HoldCounts
  <1>4. /\ faults' \in 0..MaxFaults
        /\ failed' \in [LeakySteps -> Nat]
        /\ \A s \in LeakySteps : failed'[s] = IF s = step THEN failed[s] + 1 ELSE failed[s]
        /\ pc' = "returned" /\ status' = DOH_RESPONSE
    BY <1>1, AbortCounts
  <1>5. TypeOK'
    BY <1>3, <1>4 DEF OpenFails, cacheVars, serverVars, callVars, TypeOK
  <1>6. Answers'
    BY <1>4 DEF OpenFails, Answers
  <1>7. Resourceful'
    BY <1>1, <1>3, <1>4 DEF OpenFails, Resourceful, Held, Made, Closes, Connection, Resources,
                            LeakySteps, TypeOK
  <1>. QED
    BY <1>5, <1>6, <1>7

\* A connection that is made is held until the request is sent or fails.
LEMMA OpenType == TypeInv /\ (Open \/ SendFails \/ NoBuffer \/ OpenFile \/ NoFile) => TypeInv'
  <1>. SUFFICES ASSUME TypeInv, Open \/ SendFails \/ NoBuffer \/ OpenFile \/ NoFile PROVE TypeInv'
    OBVIOUS
  <1>. USE DEF TypeInv, cacheVars, serverVars, callVars
  <1>0. \A r \in Resources : open[r] \in Nat
    BY DEF TypeOK
  <1>1. CASE Open
    <2>1. Hold(Connection, {})
      BY <1>1 DEF Open
    <2>2. /\ open' \in [Resources -> Nat]
          /\ \A r \in Resources : open'[r] = open[r] + (IF r \in Connection THEN 1 ELSE 0)
      BY <2>1, <1>0, HoldCounts
    <2>3. TypeOK'
      BY <1>1, <2>2 DEF Open, TypeOK
    <2>4. Answers'
      BY <1>0, <1>1, <2>2 DEF Open, Answers
    <2>7. Resourceful'
      BY <1>0, <1>1, <2>2 DEF Open, Resourceful, Held, Connection, Resources, TypeOK, LeakySteps
    <2>. QED
      BY <2>3, <2>4, <2>7
  <1>2. CASE SendFails
    <2>1. Hold({}, Connection) /\ Abort("send") /\ pc = "send"
      BY <1>2 DEF SendFails
    <2>2. \A r \in Resources : r \in Connection => open[r] > 0
      BY <2>1, <1>0 DEF Resourceful, Held, Connection, Resources, TypeOK, LeakySteps
    <2>3. /\ open' \in [Resources -> Nat]
          /\ \A r \in Resources : open'[r] = open[r] - (IF r \in Connection THEN 1 ELSE 0)
      BY <2>1, <2>2, <1>0, HoldCounts
    <2>4. /\ faults' \in 0..MaxFaults
          /\ failed' \in [LeakySteps -> Nat]
          /\ \A s \in LeakySteps : failed'[s] = failed[s]
          /\ pc' = "returned" /\ status' = DOH_RESPONSE
      BY <2>1, AbortCounts DEF LeakySteps
    <2>5. TypeOK'
      BY <1>2, <2>3, <2>4 DEF SendFails, TypeOK
    <2>6. Answers'
      BY <1>2, <2>4 DEF SendFails, Answers
    <2>7. Resourceful'
      BY <1>0, <2>1, <2>3, <2>4 DEF Resourceful, Held, Connection, Resources, LeakySteps
    <2>. QED
      BY <2>5, <2>6, <2>7
  <1>3. CASE NoBuffer
    <2>1. Hold({}, Connection) /\ Abort("malloc") /\ pc = "sent"
      BY <1>3 DEF NoBuffer
    <2>2. \A r \in Resources : r \in Connection => open[r] > 0
      BY <2>1, <1>0 DEF Resourceful, Held, Connection, Resources, TypeOK, LeakySteps
    <2>3. /\ open' \in [Resources -> Nat]
          /\ \A r \in Resources : open'[r] = open[r] - (IF r \in Connection THEN 1 ELSE 0)
      BY <2>1, <2>2, <1>0, HoldCounts
    <2>4. /\ faults' \in 0..MaxFaults
          /\ failed' \in [LeakySteps -> Nat]
          /\ \A s \in LeakySteps : failed'[s] = failed[s]
          /\ pc' = "returned" /\ status' = DOH_RESPONSE
      BY <2>1, AbortCounts DEF LeakySteps
    <2>5. TypeOK'
      BY <1>3, <2>3, <2>4 DEF NoBuffer, TypeOK
    <2>6. Answers'
      BY <1>3, <2>4 DEF NoBuffer, Answers
    <2>7. Resourceful'
      BY <1>0, <2>1, <2>3, <2>4 DEF Resourceful, Held, Connection, Resources, LeakySteps
    <2>. QED
      BY <2>5, <2>6, <2>7
  <1>4. CASE OpenFile
    <2>1. Hold({"file"}, {})
      BY <1>4 DEF OpenFile
    <2>2. /\ open' \in [Resources -> Nat]
          /\ \A r \in Resources : open'[r] = open[r] + (IF r \in {"file"} THEN 1 ELSE 0)
      BY <2>1, <1>0, HoldCounts
    <2>3. TypeOK'
      BY <1>4, <2>2 DEF OpenFile, TypeOK
    <2>4. Answers'
      BY <1>0, <1>4, <2>2 DEF OpenFile, Answers
    <2>7. Resourceful'
      BY <1>0, <1>4, <2>2 DEF OpenFile, Resourceful, Held, Connection, Resources, TypeOK, LeakySteps
    <2>. QED
      BY <2>3, <2>4, <2>7
  <1>5. CASE NoFile
    <2>1. Hold({}, Connection) /\ Abort("fopen") /\ pc = "sent"
      BY <1>5 DEF NoFile
    <2>2. \A r \in Resources : r \in Connection => open[r] > 0
      BY <2>1, <1>0 DEF Resourceful, Held, Connection, Resources, TypeOK, LeakySteps
    <2>3. /\ open' \in [Resources -> Nat]
          /\ \A r \in Resources : open'[r] = open[r] - (IF r \in Connection THEN 1 ELSE 0)
      BY <2>1, <2>2, <1>0, HoldCounts
    <2>4. /\ faults' \in 0..MaxFaults
          /\ failed' \in [LeakySteps -> Nat]
          /\ \A s \in LeakySteps : failed'[s] = failed[s]
          /\ pc' = "returned" /\ status' = DOH_RESPONSE
      BY <2>1, AbortCounts DEF LeakySteps
    <2>5. TypeOK'
      BY <1>5, <2>3, <2>4 DEF NoFile, TypeOK
    <2>6. Answers'
      BY <1>5, <2>4 DEF NoFile, Answers
    <2>7. Resourceful'
      BY <1>0, <2>1, <2>3, <2>4 DEF Resourceful, Held, Connection, Resources, LeakySteps
    <2>. QED
      BY <2>5, <2>6, <2>7
  <1>. QED
    BY <1>1, <1>2, <1>3, <1>4, <1>5

\* However the message is read the connection is closed, and a file left open
\* only by a read that fails.
LEMMA ReadType == TypeInv /\ (Read \/ ReadShort \/ ReadFails) => TypeInv'
  <1>. SUFFICES ASSUME TypeInv, Read \/ ReadShort \/ ReadFails PROVE TypeInv'
    OBVIOUS
  <1>. USE DEF TypeInv, cacheVars, serverVars, callVars
  <1>0. /\ \A r \in Resources : open[r] \in Nat
        /\ pc = "read"
    BY DEF TypeOK, Read, ReadShort, ReadFails
  <1>1. \A r \in Resources : r \in Connection \cup {"file"} => open[r] > 0
    BY <1>0 DEF Resourceful, Held, Connection, Resources, TypeOK, LeakySteps
  <1>2. session' \in Sessions \cup {Anonymous, NoSession}
    BY DEF Read, ReadShort, ReadFails, CheckSessionId, TypeOK
  <1>3. CASE Read
    <2>1. Hold({}, Connection \cup {"file"})
      BY <1>3 DEF Read
    <2>2. /\ open' \in [Resources -> Nat]
          /\ \A r \in Resources :
                open'[r] = open[r] - (IF r \in Connection \cup {"file"} THEN 1 ELSE 0)
      BY <2>1, <1>0, <1>1, HoldCounts
    <2>3. TypeOK'
      BY <1>2, <1>3, <2>2 DEF Read, TypeOK
    <2>4. Answers'
      BY <1>0, <1>3, <2>2 DEF Read, Answers
    <2>7. Resourceful'
      BY <1>0, <1>3, <2>2 DEF Read, Resourceful, Held, Connection, Resources, TypeOK, LeakySteps
    <2>. QED
      BY <2>3, <2>4, <2>7
  <1>4. CASE ReadShort
    <2>1. Hold({}, Connection \cup {"file"})
      BY <1>4 DEF ReadShort
    <2>2. /\ open' \in [Resources -> Nat]
          /\ \A r \in Resources :
                open'[r] = open[r] - (IF r \in Connection \cup {"file"} THEN 1 ELSE 0)
      BY <2>1, <1>0, <1>1, HoldCounts
    <2>3. /\ reply'.kind \in Kinds /\ reply'.id = reply.id /\ reply'.cookie = reply.cookie
          /\ reply' \in Replies
      BY <1>4 DEF ReadShort, CutKinds, Kinds, Answers, Replies
    <2>4. faults' \in 0..MaxFaults
      BY <1>4, LimitAssumption DEF ReadShort, Fault, TypeOK
    <2>5. TypeOK'
      BY <1>2, <1>4, <2>2, <2>3, <2>4 DEF ReadShort, TypeOK
    <2>6. Answers'
      BY <1>0, <1>4, <2>2, <2>3 DEF ReadShort, Answers
    <2>7. Resourceful'
      BY <1>0, <1>4, <2>2, <2>3 DEF ReadShort, Resourceful, Held, Connection, Resources, TypeOK, LeakySteps
    <2>. QED
      BY <2>5, <2>6, <2>7
  <1>5. CASE ReadFails
    <2>1. Hold({}, Connection) /\ Abort("read")
      BY <1>5 DEF ReadFails
    <2>2. /\ open' \in [Resources -> Nat]
          /\ \A r \in Resources : open'[r] = open[r] - (IF r \in Connection THEN 1 ELSE 0)
      BY <2>1, <1>0, <1>1, HoldCounts
    <2>3. /\ faults' \in 0..MaxFaults
          /\ failed' \in [LeakySteps -> Nat]
          /\ \A s \in LeakySteps : failed'[s] = IF s = "read" THEN failed[s] + 1 ELSE failed[s]
          /\ pc' = "returned" /\ status' = DOH_RESPONSE
      BY <2>1, AbortCounts
    <2>4. TypeOK'
      BY <1>2, <1>5, <2>2, <2>3 DEF ReadFails, TypeOK
    <2>5. Answers'
      BY <1>5, <2>3 DEF ReadFails, Answers
    <2>6. Resourceful'
      BY <1>0, <2>2, <2>3 DEF Resourceful, Held, Connection, Resources, LeakySteps, TypeOK
    <2>. QED
      BY <2>4, <2>5, <2>6
  <1>. QED
    BY <1>3, <1>4, <1>5

\* A parse holds nothing, but for the reader a refused login leaves.
LEMMA ParseType == TypeInv /\ (ParseGroup \/ NoReader \/ ParseLogin \/ ParseLogout) => TypeInv'
  <1>. SUFFICES ASSUME TypeInv, ParseGroup \/ NoReader \/ ParseLogin \/ ParseLogout
                PROVE  TypeInv'
    OBVIOUS
  <1>. USE DEF TypeInv, cacheVars, serverVars, callVars
  <1>0. \A r \in Resources : open[r] \in Nat
    BY DEF TypeOK
  <1>1. CASE ParseGroup
    <2>1. PICK g, v, s : GroupParsed(g, v, s)
      BY <1>1, GroupIsParsed
    <2>. USE DEF GroupParsed
    <2>2. reply.kind \in Kinds
      BY <2>1 DEF Answers
    <2>3. /\ last' \in [Asked -> {Never} \cup 0..MaxTime]
          /\ data' \in [Asked -> {"blank", "values"}]
          /\ heard' \in [Asked -> Kinds \cup {"nothing"}]
      BY <2>1, <2>2 DEF Parsed, TypeOK
    <2>4. pc' = "returned" /\ status' \in {DOH_SUCCESS, DOH_RESPONSE, DOH_NEED_LOGIN}
      BY <2>1 DEF Parsed, Return
    <2>5. TypeOK'
      BY <2>1, <2>3, <2>4 DEF Parsed, TypeOK
    <2>6. Answers' /\ Resourceful'
      BY <2>1, <2>4 DEF Parsed, Answers, Resourceful, Held
    <2>. QED
      BY <2>5, <2>6
  <1>2. CASE NoReader
    <2>1. data' \in [Asked -> {"blank", "values"}]
      BY <1>2 DEF NoReader, TypeOK
    <2>2. faults' \in 0..MaxFaults
      BY <1>2, LimitAssumption DEF NoReader, Fault, TypeOK
    <2>3. TypeOK'
      BY <1>2, <2>1, <2>2 DEF NoReader, Return, TypeOK
    <2>4. Answers' /\ Resourceful'
      BY <1>2 DEF NoReader, Return, Answers, Resourceful, Held
    <2>. QED
      BY <2>3, <2>4
  <1>3. CASE ParseLogin
    <2>1. CASE reply.kind = "refused"
      <3>1. Hold({"reader"}, {})
        BY <1>3, <2>1 DEF ParseLogin
      <3>2. /\ open' \in [Resources -> Nat]
            /\ \A r \in Resources : open'[r] = open[r] + (IF r \in {"reader"} THEN 1 ELSE 0)
        BY <3>1, <1>0, HoldCounts
      <3>3. failed' = [failed EXCEPT !["login"] = failed["login"] + 1]
        BY <1>3, <2>1 DEF ParseLogin
      <3>4. failed' \in [LeakySteps -> Nat]
        BY <3>3 DEF TypeOK, LeakySteps
      <3>5. TypeOK'
        BY <1>3, <2>1, <3>2, <3>4 DEF ParseLogin, Return, TypeOK
      <3>6. Answers'
        BY <1>3, <2>1 DEF ParseLogin, Return, Answers
      <3>7. Resourceful'
        BY <1>0, <1>3, <2>1, <3>2, <3>3
           DEF ParseLogin, Return, Resourceful, Held, Resources, TypeOK, LeakySteps, Connection
      <3>. QED
        BY <3>5, <3>6, <3>7
    <2>2. CASE reply.kind # "refused"
      <3>1. reply.kind = "granted" => reply.id \in Sessions \cup {NoSession}
        BY DEF TypeOK
      <3>2. TypeOK'
        BY <1>3, <2>2, <3>1 DEF ParseLogin, Return, TypeOK
      <3>3. Answers' /\ Resourceful'
        BY <1>3, <2>2 DEF ParseLogin, Return, Answers, Resourceful, Held
      <3>. QED
        BY <3>2, <3>3
    <2>. QED
      BY <2>1, <2>2
  <1>4. CASE ParseLogout
    <2>1. TypeOK'
      BY <1>4 DEF ParseLogout, Return, TypeOK
    <2>2. Answers' /\ Resourceful'
      BY <1>4 DEF ParseLogout, Return, Answers, Resourceful, Held
    <2>. QED
      BY <2>1, <2>2
  <1>. QED
    BY <1>1, <1>2, <1>3, <1>4

\* The server answers a request for a group with something a group can parse.
LEMMA SendType == TypeInv /\ Send => TypeInv'
  <1>. SUFFICES ASSUME TypeInv, Send PROVE TypeInv'
    OBVIOUS
  <1>. USE DEF TypeInv, cacheVars, callVars
  <1>1. request \in Groups \/ request = "LOGIN" \/ request = "LOGOUT"
    BY RequestType DEF TypeOK
  <1>2. \/ request = "LOGIN" /\ ServeLogin
        \/ request = "LOGOUT" /\ ServeLogout
        \/ request \in Groups /\ ServeGroup
    BY <1>1 DEF Send, Groups
  <1>3. /\ reply' \in Replies
        /\ request \in Groups => reply'.kind \in Kinds
        /\ reply'.kind \in Kinds \cup {"none", "granted", "refused", "bye"}
        /\ reply'.id \in Sessions \cup {NoSession}
        /\ reply'.cookie \in {Anonymous, NoSession}
        /\ live' \subseteq Sessions
    <2>1. CASE request = "LOGIN" /\ ServeLogin
      BY <2>1 DEF ServeLogin, Reply, Replies, TypeOK, Groups
    <2>2. CASE request = "LOGOUT" /\ ServeLogout
      BY <2>2 DEF ServeLogout, Reply, Replies, TypeOK, Groups
    <2>3. CASE request \in Groups /\ ServeGroup
      <3>1. PICK kind \in {"data", "error", "login required"}, cookie \in {Anonymous, NoSession} :
               Reply(kind, NoSession, cookie)
        BY <2>3 DEF ServeGroup
      <3>. QED
        BY <2>3, <3>1 DEF ServeGroup, Reply, Replies, TypeOK, Kinds
    <2>. QED
      BY <1>2, <2>1, <2>2, <2>3
  <1>4. TypeOK'
    BY <1>3 DEF Send, TypeOK
  <1>5. Answers'
    BY <1>3, RequestType DEF Send, Answers
  <1>6. Resourceful'
    BY DEF Send, Resourceful, Held
  <1>. QED
    BY <1>4, <1>5, <1>6

\* The steps of fetch_doh_information itself, and those of a request that come
\* to nothing, hold nothing either.
LEMMA FetchType ==
    TypeInv /\ (AnswerFromCache \/ Crash \/ LogOutFirst \/ LogIn \/ Retry \/ NextRequest
                \/ FetchReturns \/ Fetch) => TypeInv'
  <1>. SUFFICES ASSUME TypeInv,
                       AnswerFromCache \/ Crash \/ LogOutFirst \/ LogIn \/ Retry
                          \/ NextRequest \/ FetchReturns \/ Fetch
                PROVE  TypeInv'
    OBVIOUS
  <1>. USE SequenceType DEF TypeInv, cacheVars, serverVars, callVars
  <1>1. CASE AnswerFromCache
    <2>1. TypeOK'
      BY <1>1 DEF AnswerFromCache, Return, TypeOK
    <2>2. Answers' /\ Resourceful'
      BY <1>1 DEF AnswerFromCache, Return, Answers, Resourceful, Held
    <2>. QED
      BY <2>1, <2>2
  <1>2. CASE Crash
    <2>1. faults' \in 0..MaxFaults
      BY <1>2, LimitAssumption DEF Crash, Fault, TypeOK
    <2>2. TypeOK'
      BY <1>2, <2>1 DEF Crash, TypeOK
    <2>3. Answers' /\ Resourceful'
      BY <1>2 DEF Crash, Answers, Resourceful, Held
    <2>. QED
      BY <2>2, <2>3
  <1>3. CASE LogOutFirst
    <2>1. TypeOK'
      BY <1>3 DEF LogOutFirst, Call, TypeOK
    <2>2. Answers' /\ Resourceful'
      BY <1>3 DEF LogOutFirst, Call, Answers, Resourceful, Held
    <2>. QED
      BY <2>1, <2>2
  <1>4. CASE LogIn
    <2>1. TypeOK'
      BY <1>4 DEF LogIn, Call, TypeOK
    <2>2. Answers' /\ Resourceful'
      BY <1>4 DEF LogIn, Call, Answers, Resourceful, Held
    <2>. QED
      BY <2>1, <2>2
  <1>5. CASE Retry
    <2>1. TypeOK'
      BY <1>5 DEF Retry, Call, TypeOK
    <2>2. Answers' /\ Resourceful'
      BY <1>5 DEF Retry, Call, Answers, Resourceful, Held
    <2>. QED
      BY <2>1, <2>2
  <1>6. CASE NextRequest
    <2>1. at + 1 \in 1..Len(Sequence)
      BY <1>6 DEF NextRequest, TypeOK
    <2>2. at' \in DOMAIN Sequence /\ asked' \subseteq Asked
      BY <1>6, <2>1 DEF NextRequest, TypeOK
    <2>3. TypeOK'
      BY <1>6, <2>2 DEF NextRequest, Call, TypeOK
    <2>4. Answers' /\ Resourceful'
      BY <1>6 DEF NextRequest, Call, Answers, Resourceful, Held
    <2>. QED
      BY <2>3, <2>4
  <1>7. CASE FetchReturns
    <2>1. TypeOK'
      BY <1>7 DEF FetchReturns, Result, TypeOK
    <2>2. Answers' /\ Resourceful'
      BY <1>7 DEF FetchReturns, Answers, Resourceful, Held
    <2>. QED
      BY <2>1, <2>2
  <1>8. CASE Fetch
    <2>1. at' \in DOMAIN Sequence /\ asked' \subseteq Asked
      BY <1>8 DEF Fetch
    <2>2. fetches' \in 0..MaxFetches
      BY <1>8, LimitAssumption DEF Fetch, TypeOK
    <2>3. TypeOK'
      BY <1>8, <2>1, <2>2 DEF Fetch, TypeOK
    <2>4. Answers' /\ Resourceful'
      BY <1>8 DEF Fetch, Answers, Resourceful, Held
    <2>. QED
      BY <2>3, <2>4
  <1>. QED
    BY <1>1, <1>2, <1>3, <1>4, <1>5, <1>6, <1>7, <1>8

\* A new process, an expiry on the server and the clock keep the types.
LEMMA RestType == TypeInv /\ (Restart \/ Expire \/ Tick \/ UNCHANGED vars) => TypeInv'
  <1>. SUFFICES ASSUME TypeInv, Restart \/ Expire \/ Tick \/ UNCHANGED vars
                PROVE  TypeInv'
    OBVIOUS
  <1>. USE DEF TypeInv, cacheVars, serverVars, callVars
  <1>1. CASE Restart
    <2>1. /\ reply' = NoReply /\ live' = live /\ lost' = live
          /\ now' = now /\ faults' = faults /\ fetches' = fetches
      BY <1>1 DEF Restart
    <2>2. reply'.kind = "none" /\ reply'.id = NoSession /\ reply'.cookie = NoSession
      BY <2>1 DEF NoReply
    <2>3. /\ last' \in [Asked -> {Never} \cup 0..MaxTime]
          /\ data' \in [Asked -> {"blank", "values"}]
          /\ heard' \in [Asked -> Kinds \cup {"nothing"}]
          /\ open' \in [Resources -> Nat] /\ failed' \in [LeakySteps -> Nat]
      BY <1>1 DEF Restart, Blank
    <2>4. /\ pc' = "idle" /\ phase' = "first" /\ status' = DOH_SUCCESS /\ result' = 0
          /\ session' = NoSession /\ buffer' = FALSE /\ asked' = {} /\ at' = 1
      BY <1>1 DEF Restart
    <2>8. /\ at' \in DOMAIN Sequence
          /\ reply'.kind \in Kinds \cup {"none", "granted", "refused", "bye"}
          /\ reply'.id \in Sessions \cup {NoSession} /\ reply'.cookie \in {Anonymous, NoSession}
          /\ status' \in {DOH_SUCCESS, DOH_RESPONSE, DOH_NEED_LOGIN} /\ result' \in {-1, 0, 1}
          /\ session' \in Sessions \cup {Anonymous, NoSession}
      BY <2>2, <2>4, SequenceType
    <2>9. /\ now' \in 0..MaxTime /\ fetches' \in 0..MaxFetches /\ faults' \in 0..MaxFaults
          /\ live' \subseteq Sessions /\ lost' \subseteq Sessions /\ asked' \subseteq Asked
      BY <2>1, <2>4 DEF TypeOK
    <2>5. TypeOK'
      BY <2>3, <2>4, <2>8, <2>9 DEF TypeOK
    <2>6. Answers'
      BY <2>1, <2>4 DEF Answers, Replies, NoReply
    <2>7. Resourceful'
      BY <1>1 DEF Restart, Resourceful, Held, Resources, LeakySteps
    <2>. QED
      BY <2>5, <2>6, <2>7
  <1>2. CASE Expire
    <2>1. TypeOK'
      BY <1>2 DEF Expire, TypeOK
    <2>2. Answers' /\ Resourceful'
      BY <1>2 DEF Expire, Answers, Resourceful, Held
    <2>. QED
      BY <2>1, <2>2
  <1>3. CASE Tick
    <2>1. now' \in 0..MaxTime
      BY <1>3, LimitAssumption DEF Tick, TypeOK
    <2>2. TypeOK'
      BY <1>3, <2>1 DEF Tick, TypeOK
    <2>3. Answers' /\ Resourceful'
      BY <1>3 DEF Tick, Answers, Resourceful, Held
    <2>. QED
      BY <2>2, <2>3
  <1>4. CASE UNCHANGED vars
    <2>1. TypeOK'
      BY <1>4 DEF vars, TypeOK
    <2>2. Answers' /\ Resourceful'
      BY <1>4 DEF vars, Answers, Resourceful, Held
    <2>. QED
      BY <2>1, <2>2
  <1>. QED
    BY <1>1, <1>2, <1>3, <1>4

\* Every variable keeps its range, an answer its request, and what is held is at
\* any moment exactly what the request's position and the past failures say.
THEOREM TypeCorrect == Spec => []TypeInv
  <1>1. TypeInv /\ [Next]_vars => TypeInv'
    BY OpenFailsType, OpenType, ReadType, ParseType, SendType, FetchType, RestType
       DEF Next, Step, Request, ParseGroup
  <1>. QED
    BY TypeInit, <1>1, PTL DEF Spec

\* LeaksAreKnown: process_doh_request's early returns leak what four failures
\* are known to leave, and nothing else, however many requests were made.
THEOREM NoMoreLeaks == Spec => []LeaksAreKnown
  <1>1. TypeInv => LeaksAreKnown
    <2>. SUFFICES ASSUME TypeInv, pc \in {"idle", "call", "returned"} PROVE LeaksAreKnown
      BY DEF LeaksAreKnown
    <2>1. \A r \in Resources : Held(r) = 0
      BY DEF Held
    <2>2. \A s \in LeakySteps : failed[s] \in Nat
      BY DEF TypeInv, TypeOK
    <2>. QED
      BY <2>1, <2>2 DEF TypeInv, Resourceful, LeaksAreKnown, Resources, LeakySteps
  <1>. QED
    BY TypeCorrect, <1>1, PTL

-----------------------------------------------------------------------------
(* The caches.                                                             *)

\* Where a request is on its way to an answer, or parses it.
Asking == pc \in {"send", "sent", "read", "parse"}

\* Only a parse, a reader that is not made and a restart touch the caches; and
\* the steps that leave them alone go on with the request that was called.
LEMMA CachesKept ==
    ASSUME TypeInv, [Next]_vars, ~ParseGroup, ~NoReader, ~Restart
    PROVE  /\ UNCHANGED cacheVars
           /\ (Tick /\ now' = now + 1) \/ UNCHANGED now
           /\ Asking' => /\ phase' = phase /\ at' = at
                         /\ Asking \/ (pc = "call" /\ ~NoNeedToAsk)
  <1>. USE DEF cacheVars, serverVars, callVars, Asking
  <1>1. CASE OpenFails \/ SendFails \/ NoBuffer \/ NoFile \/ ReadFails \/ Crash
             \/ AnswerFromCache
    BY <1>1 DEF OpenFails, SendFails, NoBuffer, NoFile, ReadFails, Crash, AnswerFromCache,
                Abort, Return
  <1>2. CASE Open \/ Send \/ OpenFile \/ Read \/ ReadShort
    BY <1>2 DEF Open, Send, OpenFile, Read, ReadShort
  <1>3. CASE ParseLogin \/ ParseLogout
    BY <1>3 DEF ParseLogin, ParseLogout, Return
  <1>4. CASE LogOutFirst \/ LogIn \/ Retry \/ NextRequest
    BY <1>4 DEF LogOutFirst, LogIn, Retry, NextRequest, Call
  <1>5. CASE FetchReturns \/ Fetch
    BY <1>5 DEF FetchReturns, Fetch
  <1>6. CASE Expire \/ Tick \/ UNCHANGED vars
    BY <1>6 DEF Expire, Tick, vars
  <1>. QED
    BY <1>1, <1>2, <1>3, <1>4, <1>5, <1>6 DEF Next, Step, Request, ParseGroup

\* Nothing of the host's answer is ever shown.
ShownInv == /\ ShownIsLatest
            /\ "SYSTEM_STATUS" \in Asked => data["SYSTEM_STATUS"] = "blank"

\* A step that shows values shows those of the answer it has just parsed.
LEMMA ShownStep == TypeInv /\ ShownInv /\ [Next]_vars => ShownInv'
  <1>. SUFFICES ASSUME TypeInv, ShownInv, [Next]_vars PROVE ShownInv'
    OBVIOUS
  <1>. USE DEF ShownInv, ShownIsLatest
  <1>0. data \in [Asked -> {"blank", "values"}] /\ heard \in [Asked -> Kinds \cup {"nothing"}]
    BY DEF TypeInv, TypeOK
  <1>1. CASE ParseGroup
    <2>1. PICK g, v, s : GroupParsed(g, v, s)
      BY <1>1, GroupIsParsed
    <2>2. /\ g \in Asked
          /\ v = "values" => /\ g = "SYSTEM_STATUS" => v = data[g]
                             /\ g # "SYSTEM_STATUS" => reply.kind \in {"data", "part"}
          /\ v \in {"blank", "values"}
          /\ data' = [data EXCEPT ![g] = v] /\ heard' = [heard EXCEPT ![g] = reply.kind]
      BY <2>1 DEF GroupParsed, Parsed
    <2>. QED
      BY <1>0, <2>2
  <1>2. CASE NoReader
    <2>1. /\ heard' = heard
          /\ data' = data \/ data' = [data EXCEPT ![request] = "blank"]
      BY <1>2 DEF NoReader
    <2>. QED
      BY <1>0, <2>1
  <1>3. CASE Restart
    BY <1>3 DEF Restart, Blank
  <1>4. CASE ~ParseGroup /\ ~NoReader /\ ~Restart
    <2>1. UNCHANGED <<data, heard>>
      BY <1>4, CachesKept DEF cacheVars
    <2>. QED
      BY <2>1
  <1>. QED
    BY <1>1, <1>2, <1>3, <1>4

\* ShownIsLatest: nothing outlives an answer that refused or broke off.
THEOREM ShownFromLatest == Spec => []ShownIsLatest
  <1>1. Init => ShownInv
    BY DEF Init, Blank, ShownInv, ShownIsLatest
  <1>2. ShownInv => ShownIsLatest
    BY DEF ShownInv
  <1>. QED
    BY TypeCorrect, <1>1, <1>2, ShownStep, PTL DEF Spec

\* A cache is never younger than the clock, and a group is asked for only when
\* its cache is stale: an answer that is refused finds it so and leaves it so.
CacheInv ==
    /\ FreshWasAnswered
    /\ \A g \in Asked : last[g] <= now
    /\ Asking /\ phase \in {"first", "retry"} => ~Fresh(request)

\* A step that makes a cache fresh is a parse of an answer.
LEMMA CacheStep == TypeInv /\ CacheInv /\ [Next]_vars => CacheInv'
  <1>. SUFFICES ASSUME TypeInv, CacheInv, [Next]_vars PROVE CacheInv'
    OBVIOUS
  <1>. USE DEF CacheInv, FreshWasAnswered, Fresh
  <1>0. /\ now \in Nat /\ FreshFor \in Nat
        /\ \A g \in Asked : last[g] \in Nat \cup {Never}
        /\ last \in [Asked -> {Never} \cup 0..MaxTime]
        /\ heard \in [Asked -> Kinds \cup {"nothing"}]
    BY LimitAssumption DEF TypeInv, TypeOK
  <1>1. CASE ParseGroup
    <2>1. PICK g, v, s : GroupParsed(g, v, s)
      BY <1>1, GroupIsParsed
    <2>2. /\ g \in Asked /\ g = request /\ Asking /\ phase \in {"first", "retry"}
          /\ reply.kind \in Kinds
          /\ last' = IF Stamped(g, reply.kind) THEN [last EXCEPT ![g] = now] ELSE last
          /\ heard' = [heard EXCEPT ![g] = reply.kind]
          /\ now' = now /\ pc' = "returned"
      BY <2>1 DEF GroupParsed, Parsed, Return, Asking, TypeInv, Answers
    <2>3. \A h \in Asked \ {g} : last'[h] = last[h] /\ heard'[h] = heard[h]
      BY <1>0, <2>2
    <2>4. heard'[g] = reply.kind /\ last'[g] \in {last[g], now}
      BY <1>0, <2>2
    <2>5. CASE Stamped(g, reply.kind)
      <3>1. last'[g] = now
        BY <1>0, <2>2, <2>5
      <3>2. reply.kind \in {"data", "part", "error"} /\ (g = "SUPERNOVA" => reply.kind # "error")
        BY <2>5 DEF Stamped
      <3>. QED
        BY <1>0, <2>2, <2>3, <2>4, <3>1, <3>2 DEF Asking
    <2>6. CASE ~Stamped(g, reply.kind)
      <3>1. last' = last /\ ~Fresh(g)
        BY <2>2, <2>6
      <3>. QED
        BY <1>0, <2>2, <2>3, <2>4, <3>1 DEF Asking
    <2>. QED
      BY <2>5, <2>6
  <1>2. CASE NoReader
    <2>1. UNCHANGED <<last, heard, now>> /\ pc' = "returned"
      BY <1>2 DEF NoReader, Return
    <2>. QED
      BY <2>1 DEF Asking
  <1>3. CASE Restart
    <2>1. \A g \in Asked : last'[g] = Never
      BY <1>3 DEF Restart
    <2>2. now' = now /\ pc' = "idle"
      BY <1>3 DEF Restart
    <2>. QED
      BY <1>0, <2>1, <2>2 DEF Asking, Never
  <1>4. CASE ~ParseGroup /\ ~NoReader /\ ~Restart
    <2>1. /\ UNCHANGED <<last, heard>>
          /\ now' = now + 1 \/ now' = now
      BY <1>4, CachesKept DEF cacheVars
    <2>2. \A g \in Asked : last'[g] <= now' /\ (Fresh(g)' => Fresh(g))
      BY <1>0, <2>1 DEF Never
    <2>3. FreshWasAnswered'
      BY <2>1, <2>2
    <2>4. ASSUME Asking', phase' \in {"first", "retry"}
          PROVE  ~Fresh(request)'
      <3>1. /\ phase' = phase /\ at' = at
            /\ Asking \/ (pc = "call" /\ ~NoNeedToAsk)
        BY <1>4, <2>4, CachesKept
      <3>2. request' = request /\ request \in Asked
        BY <2>4, <3>1, RequestType DEF request, TypeInv
      <3>3. ~Fresh(request)
        BY <2>4, <3>1 DEF NoNeedToAsk
      <3>. QED
        BY <2>2, <3>2, <3>3
    <2>. QED
      BY <2>2, <2>3, <2>4
  <1>. QED
    BY <1>1, <1>2, <1>3, <1>4

\* CachesAreSound: what is served without asking was once answered.
THEOREM FreshCachesAnswered == Spec => []CachesAreSound
  <1>1. Init => CacheInv
    <2>. SUFFICES ASSUME Init PROVE CacheInv
      OBVIOUS
    <2>1. /\ \A g \in Asked : last[g] = Never
          /\ now = 0 /\ pc = "idle"
      BY DEF Init
    <2>. QED
      BY <2>1 DEF CacheInv, FreshWasAnswered, Fresh, Asking, Never
  <1>2. TypeInv /\ CacheInv => CachesAreSound
    BY DEF TypeInv, CacheInv, CachesAreSound
  <1>. QED
    BY TypeCorrect, <1>1, <1>2, CacheStep, PTL DEF Spec

-----------------------------------------------------------------------------
(* The sessions.                                                           *)

\* From the moment the server has asked for a login to the moment it grants
\* one, the client's session is none the server honours: only then does a
\* change of current_session_id forget nothing.
Unheeded ==
    \/ phase \in {"logout", "login"} /\ pc \in {"call", "send", "sent", "read", "parse"}
    \/ phase = "logout" /\ pc = "returned"
    \/ phase = "first" /\ pc = "returned" /\ status = DOH_NEED_LOGIN
    \/ pc \in {"sent", "read", "parse"} /\ reply.kind = "login required"
    \/ pc \in {"sent", "read"} /\ reply.cookie = Anonymous

SessionInv == NoForgottenSession /\ (Unheeded => session \notin live)

\* What the steps that concern no session leave of it.
LEMMA SessionKept ==
    ASSUME TypeInv, SessionInv, UNCHANGED <<session, live, lost>>, Unheeded' => Unheeded
    PROVE  SessionInv'
  BY DEF SessionInv, NoForgottenSession

\* A session ends, is replaced or is granted only where none is forgotten.
LEMMA SessionStep == TypeInv /\ SessionInv /\ [Next]_vars => SessionInv'
  <1>. SUFFICES ASSUME TypeInv, SessionInv, [Next]_vars PROVE SessionInv'
    OBVIOUS
  <1>. USE DEF cacheVars, serverVars, callVars
  <1>0. /\ Anonymous \notin Sessions /\ NoSession \notin Sessions /\ live \subseteq Sessions
        /\ DOH_RESPONSE # DOH_NEED_LOGIN /\ DOH_SUCCESS # DOH_NEED_LOGIN
    BY SessionAssumption DEF TypeInv, TypeOK, DOH_RESPONSE, DOH_NEED_LOGIN, DOH_SUCCESS
  <1>1. CASE AnswerFromCache
    BY <1>0, <1>1, SessionKept DEF AnswerFromCache, NoNeedToAsk, Return, Unheeded, SessionInv,
                                   NoForgottenSession
  <1>2. CASE OpenFails \/ SendFails \/ NoBuffer \/ NoFile
    <2>1. /\ UNCHANGED <<session, live, lost, phase>>
          /\ pc' = "returned" /\ status' = DOH_RESPONSE
          /\ pc \in {"call", "send", "sent"}
      BY <1>2 DEF OpenFails, SendFails, NoBuffer, NoFile, Abort, Return
    <2>. QED
      BY <1>0, <2>1, SessionKept DEF Unheeded
  <1>3. CASE Open \/ OpenFile \/ Crash
    BY <1>3, SessionKept DEF Open, OpenFile, Crash, Unheeded
  <1>4. CASE Send
    <2>1. /\ pc = "send" /\ pc' = "sent" /\ UNCHANGED <<session, phase, status>>
          /\ lost' = IF request = "LOGIN" THEN lost \cup (live' \ live) ELSE lost
      BY <1>4 DEF Send
    <2>2. CASE request = "LOGIN"
      <3>1. session \notin live
        BY <2>1, <2>2, RequestType DEF TypeInv, SessionInv, Unheeded
      <3>2. ServeLogin
        BY <1>4, <2>2 DEF Send
      <3>3. session \notin live' /\ live \subseteq live'
        BY <3>1, <3>2 DEF ServeLogin
      <3>. QED
        BY <2>1, <2>2, <3>3 DEF SessionInv, NoForgottenSession
    <2>3. CASE request = "LOGOUT"
      <3>1. ServeLogout
        BY <1>4, <2>3 DEF Send
      <3>2. live' = live \ {session} /\ lost' = lost
        BY <2>1, <2>3, <3>1 DEF ServeLogout
      <3>. QED
        BY <2>1, <3>2 DEF SessionInv, NoForgottenSession
    <2>4. CASE request \notin {"LOGIN", "LOGOUT"}
      <3>1. ServeGroup
        BY <1>4, <2>4 DEF Send
      <3>2. live' = live /\ lost' = lost /\ phase \in {"first", "retry"}
        BY <2>1, <2>4, <3>1, RequestType DEF ServeGroup, TypeInv, TypeOK
      <3>3. CASE session \in live
        <4>1. PICK kind \in {"data", "error"} :
                 reply' = [kind |-> kind, id |-> NoSession, cookie |-> NoSession]
          BY <3>1, <3>3 DEF ServeGroup, Reply
        <4>2. reply'.kind # "login required" /\ reply'.cookie # Anonymous
          BY <4>1 DEF NoSession, Anonymous
        <4>. QED
          BY <2>1, <3>2, <4>2 DEF SessionInv, NoForgottenSession, Unheeded
      <3>4. CASE session \notin live
        BY <2>1, <3>2, <3>4 DEF SessionInv, NoForgottenSession
      <3>. QED
        BY <3>3, <3>4
    <2>. QED
      BY <2>2, <2>3, <2>4
  <1>5. CASE Read \/ ReadShort \/ ReadFails
    <2>1. /\ pc = "read" /\ pc' \in {"parse", "returned"} /\ UNCHANGED <<live, lost, phase>>
          /\ session' = session \/ (reply.cookie # NoSession /\ session' = reply.cookie)
          /\ pc' = "returned" => status' = DOH_RESPONSE
      BY <1>5 DEF Read, ReadShort, ReadFails, CheckSessionId, Abort, Return
    <2>2. reply.cookie \in {Anonymous, NoSession}
      BY DEF TypeInv, TypeOK
    <2>3. reply'.kind = "login required" => reply.kind = "login required"
      <3>1. CASE Read \/ ReadFails
        BY <3>1 DEF Read, ReadFails
      <3>2. CASE ReadShort
        <4>1. PICK k \in CutKinds(reply.kind) : reply' = [reply EXCEPT !.kind = k]
          BY <3>2 DEF ReadShort
        <4>2. k # "login required"
          BY DEF CutKinds
        <4>. QED
          BY <4>1, <4>2 DEF TypeInv, Answers, Replies
      <3>. QED
        BY <1>5, <3>1, <3>2
    <2>4. CASE session \notin live
      <3>1. session' \notin live'
        BY <1>0, <2>1, <2>2, <2>4
      <3>2. live' \subseteq lost'
        BY <2>1, <2>4 DEF SessionInv, NoForgottenSession
      <3>. QED
        BY <3>1, <3>2 DEF SessionInv, NoForgottenSession
    <2>5. CASE session \in live
      <3>1. ~Unheeded
        BY <2>5 DEF SessionInv
      <3>2. session' = session
        BY <2>1, <2>2, <3>1 DEF Unheeded
      <3>3. ~Unheeded'
        BY <1>0, <2>1, <2>3, <3>1 DEF Unheeded
      <3>. QED
        BY <2>1, <3>2, <3>3 DEF SessionInv, NoForgottenSession
    <2>. QED
      BY <2>4, <2>5
  <1>6. CASE ParseLogin
    <2>1. pc = "parse" /\ phase = "login" /\ live' = live /\ pc' = "returned" /\ phase' = phase
      BY <1>6 DEF ParseLogin, Return
    <2>2. live \subseteq lost
      BY <2>1 DEF SessionInv, NoForgottenSession, Unheeded
    <2>3. /\ session' = IF reply.kind = "granted" THEN reply.id ELSE session
          /\ lost' = IF reply.kind = "granted" THEN lost \ {reply.id} ELSE lost
      BY <1>6 DEF ParseLogin
    <2>4. NoForgottenSession'
      BY <2>1, <2>2, <2>3 DEF NoForgottenSession
    <2>. QED
      BY <2>1, <2>4 DEF SessionInv, Unheeded
  <1>7. CASE ParseLogout
    <2>1. /\ pc = "parse" /\ phase = "logout" /\ UNCHANGED <<live, lost>>
          /\ session' = NoSession
      BY <1>7 DEF ParseLogout
    <2>2. live \subseteq lost
      BY <2>1 DEF SessionInv, NoForgottenSession, Unheeded
    <2>. QED
      BY <1>0, <2>1, <2>2 DEF SessionInv, NoForgottenSession
  <1>8. CASE ParseGroup
    <2>1. PICK g, v, s : GroupParsed(g, v, s)
      BY <1>8, GroupIsParsed
    <2>2. /\ pc = "parse" /\ pc' = "returned" /\ phase \in {"first", "retry"}
          /\ UNCHANGED <<session, live, lost, phase>>
          /\ status' = DOH_NEED_LOGIN => reply.kind = "login required"
      BY <2>1 DEF GroupParsed, Parsed, Return
    <2>. QED
      BY <2>2, SessionKept DEF Unheeded
  <1>9. CASE NoReader
    <2>1. /\ pc = "parse" /\ pc' = "returned" /\ status' = DOH_RESPONSE
          /\ UNCHANGED <<session, live, lost, phase>>
      BY <1>9 DEF NoReader, Return
    <2>. QED
      BY <1>0, <2>1, SessionKept DEF Unheeded
  <1>10. CASE LogOutFirst \/ LogIn
    BY <1>10, SessionKept DEF LogOutFirst, LogIn, LoginDue, Call, Unheeded
  <1>11. CASE Retry \/ NextRequest \/ FetchReturns \/ Fetch
    BY <1>11, SessionKept DEF Retry, NextRequest, FetchReturns, Fetch, Call, Unheeded
  <1>12. CASE Restart
    BY <1>0, <1>12 DEF Restart, SessionInv, NoForgottenSession
  <1>13. CASE Expire
    <2>1. PICK id \in live : live' = live \ {id} /\ lost' = lost \ {id}
      BY <1>13 DEF Expire
    <2>2. UNCHANGED <<pc, phase, status, session, reply>>
      BY <1>13 DEF Expire
    <2>. QED
      BY <2>1, <2>2 DEF SessionInv, NoForgottenSession, Unheeded
  <1>14. CASE Tick \/ UNCHANGED vars
    BY <1>14, SessionKept DEF Tick, vars, Unheeded
  <1>. QED
    BY <1>1, <1>2, <1>3, <1>4, <1>5, <1>6, <1>7, <1>8, <1>9, <1>10, <1>11, <1>12, <1>13, <1>14
       DEF Next, Step, Request, ParseGroup

\* NoForgottenSession: LOGOUT before LOGIN leaves the server no session of a
\* process but its current one and those whose id never arrived or was lost with
\* its process, whatever is cut short, fails or expires.
THEOREM SessionsRemembered == Spec => []NoForgottenSession
  <1>1. Init => SessionInv
    BY DEF Init, SessionInv, NoForgottenSession
  <1>2. SessionInv => NoForgottenSession
    BY DEF SessionInv
  <1>. QED
    BY TypeCorrect, <1>1, <1>2, SessionStep, PTL DEF Spec

-----------------------------------------------------------------------------
(* The sequence.                                                           *)

\* A fetch under way has put the requests up to the one it is at, and has no
\* result; success is reported at the end of the sequence only.
AskedInv == /\ SuccessAskedAll
            /\ pc # "idle" => result = 0 /\ asked = {Sequence[n] : n \in 1..at}

\* A call, and what leads from it to its return, leaves the fetch where it is.
LEMMA FetchKept ==
    ASSUME Request
    PROVE  UNCHANGED <<at, asked, result>> /\ pc # "idle"
  <1>. USE DEF callVars
  <1>1. CASE OpenFails \/ Open \/ SendFails \/ NoBuffer \/ OpenFile \/ NoFile \/ AnswerFromCache
    BY <1>1 DEF OpenFails, Open, SendFails, NoBuffer, OpenFile, NoFile, AnswerFromCache
  <1>2. CASE Send \/ Crash \/ Read \/ ReadShort \/ ReadFails
    BY <1>2 DEF Send, Crash, HollowTag, Read, ReadShort, ReadFails
  <1>3. CASE ParseLogin \/ ParseLogout \/ NoReader
    BY <1>3 DEF ParseLogin, ParseLogout, NoReader
  <1>4. CASE ParseGroup
    BY <1>4 DEF ParseGroup, ParseRefused, ParseSupernova, ParseHost, ParseUser, ParseStorage,
                ParseAlerts, ParseAudits, Parsed, Parsing
  <1>. QED
    BY <1>1, <1>2, <1>3, <1>4 DEF Request, ParseGroup

\* Each step of the fetch adds the request it goes on to.
LEMMA AskedStep == TypeInv /\ AskedInv /\ [Next]_vars => AskedInv'
  <1>. SUFFICES ASSUME TypeInv, AskedInv, [Next]_vars PROVE AskedInv'
    OBVIOUS
  <1>. USE DEF AskedInv, SuccessAskedAll
  <1>0. at \in 1..Len(Sequence) /\ Len(Sequence) \in Nat
    BY SequenceType DEF TypeInv, TypeOK
  <1>1. CASE Request
    BY <1>1, FetchKept
  <1>2. CASE LogOutFirst \/ LogIn \/ Retry
    BY <1>2 DEF LogOutFirst, LogIn, Retry, Call
  <1>3. CASE NextRequest
    <2>1. /\ pc = "returned" /\ at' = at + 1 /\ result' = result
          /\ asked' = asked \cup {Sequence[at + 1]}
      BY <1>3 DEF NextRequest, Call
    <2>2. 1..(at + 1) = (1..at) \cup {at + 1}
      BY <1>0
    <2>. QED
      BY <2>1, <2>2
  <1>4. CASE FetchReturns
    <2>1. /\ pc = "returned" /\ pc' = "idle" /\ asked' = asked
          /\ GivesUp \/ at = Len(Sequence)
          /\ result' = Result(status)
      BY <1>4 DEF FetchReturns
    <2>2. ASSUME result' = 1 PROVE asked' = Asked
      <3>1. ~GivesUp
        BY <2>1, <2>2 DEF GivesUp, Result
      <3>2. asked = {Sequence[n] : n \in 1..Len(Sequence)}
        BY <2>1, <3>1
      <3>. QED
        BY <2>1, <3>2, SequenceType DEF Asked
    <2>. QED
      BY <2>1, <2>2
  <1>5. CASE Fetch
    <2>1. at' = 1 /\ result' = 0 /\ asked' = {Sequence[1]}
      BY <1>5 DEF Fetch
    <2>2. 1..1 = {1}
      OBVIOUS
    <2>. QED
      BY <2>1, <2>2
  <1>6. CASE Restart
    BY <1>6 DEF Restart
  <1>7. CASE Expire \/ Tick \/ UNCHANGED vars
    BY <1>7 DEF Expire, Tick, vars, callVars
  <1>. QED
    BY <1>1, <1>2, <1>3, <1>4, <1>5, <1>6, <1>7 DEF Next, Step

\* SuccessAskedAll: a fetch that returns 1 has put every request.
THEOREM SuccessMeansAsked == Spec => []SuccessAskedAll
  <1>1. Init => AskedInv
    BY DEF Init, AskedInv, SuccessAskedAll
  <1>2. AskedInv => SuccessAskedAll
    BY DEF AskedInv
  <1>. QED
    BY TypeCorrect, <1>1, <1>2, AskedStep, PTL DEF Spec
=============================================================================
