------------------------------- MODULE DohClient -------------------------------
(***************************************************************************)
(* The DOH client of c/https/do_doh_https_request.c: the sequence of       *)
(* requests fetch_doh_information makes, each carried by                   *)
(* process_doh_request over a connection of its own, the session the       *)
(* requests carry, the 30-second caches the answers fill, and the server   *)
(* and the network as the client sees them.                                *)
(*                                                                         *)
(* The two lists are parsed in DohAuditList and DohAlertList and the       *)
(* message is assembled in DohReadLoop; here an answer is of one of six    *)
(* kinds.                                                                  *)
(***************************************************************************)
EXTENDS Integers, Sequences

CONSTANTS
    Sequence,   \* the requests of fetch_doh_information, in order
    Sessions,   \* ids of authenticated sessions the server can give out
    Resident,   \* is the fetch called again in the same process?
    FreshFor,   \* the 30 seconds for which a cache is served, in ticks
    MaxTime,    \* bound on the clock
    MaxFetches, \* bound on the calls of fetch_doh_information
    MaxFaults   \* bound on the faults of network, server and machine

Groups == {"SUPERNOVA", "SYSTEM_STATUS", "SERIAL_NUMBER", "STORAGE_USED",
           "ALERT_TABLE", "AUDIT_TABLE"}
Requests == Groups \cup {"LOGIN", "LOGOUT"}
Asked == {Sequence[n] : n \in DOMAIN Sequence}

DOH_SUCCESS    == 0
DOH_RESPONSE   == -1
DOH_NEED_LOGIN == -2

Anonymous == "anonymous"    \* an unauthenticated id, from a Set-Cookie header
NoSession == "none"         \* the empty current_session_id
Never == -1                 \* a cache that was never filled

ASSUME SequenceAssumption == Sequence \in Seq(Groups) /\ Sequence # <<>>
ASSUME SessionAssumption == {Anonymous, NoSession} \cap Sessions = {}
ASSUME LimitAssumption ==
    /\ Resident \in BOOLEAN
    /\ FreshFor \in Nat \ {0}
    /\ {MaxTime, MaxFetches, MaxFaults} \subseteq Nat

VARIABLES
    now,      \* time(0)
    fetches,  \* calls of fetch_doh_information so far
    faults,   \* faults so far
    pc,       \* where process_doh_request is
    at,       \* fetch_doh_information's request
    phase,    \* the request under way: "first", "logout", "login" or "retry"
    status,   \* what the last request returned
    result,   \* what fetch_doh_information returned
    session,  \* current_session_id
    reply,    \* the answer on its way or in /tmp/snmp/tempxml
    last,     \* lastsupernovatime, lasthosttime, ...
    data,     \* a group's name, licence, sizes or list: blank, or values?
    buffer,   \* is http_response allocated?
    open,     \* resources taken and not given back
    live,     \* the sessions the server honours
    heard,    \* history: the kind of the answer a group was last parsed from
    lost,     \* history: live sessions whose id the client never got, or lost
    asked,    \* history: the groups this fetch has asked for
    failed    \* history: how often each leaking step has failed

cacheVars  == <<last, data, heard>>
serverVars == <<live, lost>>
callVars   == <<fetches, at, phase, result, asked>>
vars == <<now, faults, pc, status, session, reply, buffer, open, failed,
          cacheVars, serverVars, callVars>>

-----------------------------------------------------------------------------
Blank == [g \in Asked |-> "blank"]
NoReply == [kind |-> "none", id |-> NoSession, cookie |-> NoSession]
LeakySteps == {"ctx", "ssl", "read", "login"}
Resources == {"socket", "SSL_CTX", "SSL", "file", "reader"}

Init ==
    /\ session = NoSession
    /\ last = [g \in Asked |-> Never]
    /\ data = Blank
    /\ heard = [g \in Asked |-> "nothing"]
    /\ open = [r \in Resources |-> 0]
    /\ failed = [s \in LeakySteps |-> 0]
    /\ pc = "idle"
    /\ at = 1
    /\ phase = "first"
    /\ status = DOH_SUCCESS
    /\ result = 0
    /\ reply = NoReply
    /\ buffer = FALSE
    /\ asked = {}
    /\ now = 0
    /\ fetches = 0
    /\ faults = 0
    /\ live = {}
    /\ lost = {}

\* The request process_doh_request is serving.
request == CASE phase = "logout" -> "LOGOUT"
             [] phase = "login"  -> "LOGIN"
             [] OTHER            -> Sequence[at]

Fresh(g) == last[g] # Never /\ now - last[g] < FreshFor

Return(s) == pc' = "returned" /\ status' = s

Fault == faults < MaxFaults /\ faults' = faults + 1

-----------------------------------------------------------------------------
(* process_doh_request, up to the message.                                 *)

\* Lines 2195-2250: nothing to log out of, or a cache that is still fresh.
NoNeedToAsk ==
    IF phase = "logout" THEN session = NoSession
                        ELSE phase # "login" /\ Fresh(request)

AnswerFromCache ==
    /\ pc = "call"
    /\ NoNeedToAsk
    /\ Return(DOH_SUCCESS)
    /\ UNCHANGED <<now, faults, session, reply, buffer, open, failed,
                   cacheVars, serverVars, callVars>>

\* A step that takes the resources S and gives back the resources T.
Hold(S, T) ==
    open' = [r \in Resources |-> open[r] + (IF r \in S THEN 1 ELSE 0)
                                        - (IF r \in T THEN 1 ELSE 0)]

Connection == {"socket", "SSL_CTX", "SSL"}

\* (Operators that nothing uses, here and below, are variants with a bug; each
\* breaks a property of a run.)

\* Lines 2255-2337: what the connection has when a step of making it fails,
\* and what the early return there closes. SSL_CTX_free(NULL) closes nothing.
Made(step) ==
    CASE step = "socket" -> {} [] step \in {"connect", "ctx"} -> {"socket"}
      [] step = "ssl" -> {"socket", "SSL_CTX"} [] OTHER -> Connection
ClosesTooLittle(step) ==
    CASE step = "ssl" -> {"socket"} [] step = "handshake" -> Connection [] OTHER -> {}
Closes(step) ==
    CASE step \in {"connect", "ssl"} -> {"socket"}
      [] step = "handshake" -> Connection [] OTHER -> {}

Abort(step) ==
    /\ Fault
    /\ failed' = [s \in LeakySteps |-> IF s = step THEN failed[s] + 1 ELSE failed[s]]
    /\ Return(DOH_RESPONSE)

OpenFails ==
    /\ pc = "call"
    /\ ~NoNeedToAsk
    /\ \E step \in {"socket", "connect", "ctx", "ssl", "handshake"} :
          /\ Hold(Made(step), Closes(step))
          /\ Abort(step)
    /\ UNCHANGED <<now, session, reply, buffer, cacheVars, serverVars, callVars>>

Open ==
    /\ pc = "call"
    /\ ~NoNeedToAsk
    /\ Hold(Connection, {})
    /\ pc' = "send"
    /\ UNCHANGED <<now, faults, status, session, reply, buffer, failed,
                   cacheVars, serverVars, callVars>>

SendFails ==
    /\ pc = "send"
    /\ Hold({}, Connection)
    /\ Abort("send")
    /\ UNCHANGED <<now, session, reply, buffer, cacheVars, serverVars, callVars>>

\* The request is on its way when the buffer for the answer is allocated, the
\* first time a process gets here.
NoBuffer ==
    /\ pc = "sent"
    /\ ~buffer
    /\ Hold({}, Connection)
    /\ Abort("malloc")
    /\ UNCHANGED <<now, session, reply, buffer, cacheVars, serverVars, callVars>>

OpenFile ==
    /\ pc = "sent"
    /\ buffer' = TRUE
    /\ Hold({"file"}, {})
    /\ pc' = "read"
    /\ UNCHANGED <<now, faults, status, session, reply, failed,
                   cacheVars, serverVars, callVars>>

\* fopen returned NULL, which the test "filefd < 0" of line 2447 lets pass, and the
\* first read fails: nothing was written yet.
NoFile ==
    /\ pc = "sent"
    /\ buffer' = TRUE
    /\ Hold({}, Connection)
    /\ Abort("fopen")
    /\ UNCHANGED <<now, session, reply, cacheVars, serverVars, callVars>>

\* In these parses a text goes through a local variable, temp_value, that nothing
\* sets before and <tag></tag> does not either. What it came with may be NULL, and the
\* parse goes on as without the tag, or a pointer, which is read and freed.
ThroughTempValue == {"LOGIN", "SUPERNOVA", "SYSTEM_STATUS", "STORAGE_USED",
                     "ALERT_TABLE", "AUDIT_TABLE"}
HollowTag ==
    /\ pc = "parse"
    /\ request \in ThroughTempValue
    /\ reply.kind \in {"granted", "data", "part"}

\* The process dies of such a pointer, or of what is put into a file that is NULL.
Crash ==
    /\ pc = "sent" \/ HollowTag
    /\ Fault
    /\ pc' = "crashed"
    /\ UNCHANGED <<now, status, session, reply, buffer, open, failed,
                   cacheVars, serverVars, callVars>>

-----------------------------------------------------------------------------
(* The server: a request it gets is answered according to the session that *)
(* came with it. LOGIN carries no cookie and opens a session or refuses.   *)

Reply(kind, id, cookie) == reply' = [kind |-> kind, id |-> id, cookie |-> cookie]

ServeLogin ==
    \/ /\ Reply("refused", NoSession, Anonymous)
       /\ UNCHANGED live
    \/ \E id \in Sessions \ (live \cup {session}) :
          /\ Reply("granted", id, Anonymous)
          /\ live' = live \cup {id}

ServeLogout ==
    /\ live' = live \ {session}
    /\ \E cookie \in {Anonymous, NoSession} : Reply("bye", NoSession, cookie)

ServeGroup ==
    /\ IF session \in live
       THEN \E kind \in {"data", "error"} : Reply(kind, NoSession, NoSession)
       ELSE Reply("login required", NoSession, Anonymous)
    /\ UNCHANGED live

Send ==
    /\ pc = "send"
    /\ pc' = "sent"
    /\ CASE request = "LOGIN"  -> ServeLogin
         [] request = "LOGOUT" -> ServeLogout
         [] OTHER              -> ServeGroup
    /\ lost' = IF request = "LOGIN" THEN lost \cup (live' \ live) ELSE lost
    /\ UNCHANGED <<now, faults, status, session, buffer, open, failed, cacheVars, callVars>>

Expire ==
    /\ \E id \in live : live' = live \ {id} /\ lost' = lost \ {id}
    /\ UNCHANGED <<now, faults, pc, status, session, reply, buffer, open, failed,
                   cacheVars, callVars>>

-----------------------------------------------------------------------------
(* The message is read into the file, whole or not.                        *)

\* check_session_id: the id of a Set-Cookie header becomes the current one.
CheckSessionId ==
    session' = IF reply.cookie # NoSession THEN reply.cookie ELSE session

\* The message may stop short, before or inside its error element.
CutKinds(kind) ==
    CASE kind \in {"error", "login required"} -> {"part", "cut error"}
      [] OTHER -> {"part"}

Read ==
    /\ pc = "read"
    /\ CheckSessionId
    /\ Hold({}, Connection \cup {"file"})
    /\ pc' = "parse"
    /\ UNCHANGED <<now, faults, status, reply, buffer, failed,
                   cacheVars, serverVars, callVars>>

ReadShort ==
    /\ pc = "read"
    /\ Fault
    /\ \E k \in CutKinds(reply.kind) : reply' = [reply EXCEPT !.kind = k]
    /\ CheckSessionId \/ UNCHANGED session
    /\ Hold({}, Connection \cup {"file"})
    /\ pc' = "parse"
    /\ UNCHANGED <<now, status, buffer, failed, cacheVars, serverVars, callVars>>

ReadFails ==
    /\ pc = "read"
    /\ CheckSessionId \/ UNCHANGED session
    /\ Hold({}, Connection)
    /\ Abort("read")
    /\ UNCHANGED <<now, reply, buffer, cacheVars, serverVars, callVars>>

-----------------------------------------------------------------------------
(* The populate functions, and what process_doh_request makes of their     *)
(* results (lines 2567-2572).                                              *)

\* populate_login_scalars: a session-id that is there is taken; only an empty
\* login element is a failure, and its return leaves the reader behind.
ParseLogin ==
    /\ pc = "parse"
    /\ phase = "login"
    /\ session' = IF reply.kind = "granted" THEN reply.id ELSE session
    /\ lost' = IF reply.kind = "granted" THEN lost \ {reply.id} ELSE lost
    /\ IF reply.kind = "refused"
       THEN /\ Hold({"reader"}, {})
            /\ failed' = [failed EXCEPT !["login"] = @ + 1]
            /\ Return(DOH_RESPONSE)
       ELSE UNCHANGED <<open, failed>> /\ Return(DOH_SUCCESS)
    /\ UNCHANGED <<now, faults, reply, buffer, cacheVars, live, callVars>>

\* LOGOUT's status is what SSL_shutdown returned.
ParseLogout ==
    /\ pc = "parse"
    /\ phase = "logout"
    /\ session' = NoSession
    /\ \E s \in {DOH_SUCCESS, DOH_RESPONSE} : Return(s)
    /\ UNCHANGED <<now, faults, reply, buffer, open, failed,
                   cacheVars, serverVars, callVars>>

\* Every group but the host's, of which no variable is ever set, is blanked
\* before its message is looked at. Of the supernova that is systemName: its
\* memory, CPUs and state keep what they had, and are left out here.
ClearedAfterwards(g) == FALSE
Cleared(g) == g # "SYSTEM_STATUS"

\* Which answers set the time of the cache: all that get to the end of the
\* loop, an error element being passed over except in the supernova's answer.
StampedBeforehand(g, kind) == TRUE
Stamped(g, kind) ==
    \/ kind \in {"data", "part"}
    \/ kind = "error" /\ g # "SUPERNOVA"

Parsed(g, value, s) ==
    /\ data' = [data EXCEPT ![g] = value]
    /\ last' = IF Stamped(g, reply.kind) THEN [last EXCEPT ![g] = now] ELSE last
    /\ heard' = [heard EXCEPT ![g] = reply.kind]
    /\ Return(s)
    /\ UNCHANGED <<now, faults, session, reply, buffer, open, failed,
                   serverVars, callVars>>

Parsing(g) == pc = "parse" /\ request = g

\* What a group's variables can hold after a message with nothing to refuse.
Outcome(kind) == CASE kind = "data" -> {"values"}
                   [] kind = "part" -> {"blank", "values"}
                   [] OTHER         -> {"blank"}

\* check_need_login ends the parse of any group. An error element that breaks
\* off makes it return the reader's -1, neither 0 nor DOH_NEED_LOGIN, so that
\* the request counts as a success.
Refused(kind) == kind \in {"login required", "cut error"}

ParseRefused ==
    \E g \in Groups :
        /\ Parsing(g)
        /\ Refused(reply.kind)
        /\ Parsed(g, IF Cleared(g) THEN "blank" ELSE data[g],
                  IF reply.kind = "login required" THEN DOH_NEED_LOGIN ELSE DOH_SUCCESS)

\* The one group that takes an error for a failure.
ParseSupernova ==
    /\ Parsing("SUPERNOVA")
    /\ ~Refused(reply.kind)
    /\ \E v \in Outcome(reply.kind) :
          Parsed("SUPERNOVA", v, IF reply.kind = "error" THEN DOH_RESPONSE ELSE DOH_SUCCESS)

\* system_ok, system_warning and system_broken go nowhere.
ParseHost ==
    /\ Parsing("SYSTEM_STATUS")
    /\ ~Refused(reply.kind)
    /\ Parsed("SYSTEM_STATUS", data["SYSTEM_STATUS"], DOH_SUCCESS)

ParseUser ==
    /\ Parsing("SERIAL_NUMBER")
    /\ ~Refused(reply.kind)
    /\ \E v \in Outcome(reply.kind) : Parsed("SERIAL_NUMBER", v, DOH_SUCCESS)

ParseStorage ==
    /\ Parsing("STORAGE_USED")
    /\ ~Refused(reply.kind)
    /\ \E v \in Outcome(reply.kind) : Parsed("STORAGE_USED", v, DOH_SUCCESS)

ParseAlerts ==
    /\ Parsing("ALERT_TABLE")
    /\ ~Refused(reply.kind)
    /\ \E v \in Outcome(reply.kind) : Parsed("ALERT_TABLE", v, DOH_SUCCESS)

ParseAudits ==
    /\ Parsing("AUDIT_TABLE")
    /\ ~Refused(reply.kind)
    /\ \E v \in Outcome(reply.kind) : Parsed("AUDIT_TABLE", v, DOH_SUCCESS)

\* xmlReaderForFile returns NULL: 0, so DOH_RESPONSE. The lists are freed
\* before the reader is made.
NoReader ==
    /\ pc = "parse"
    /\ request # "LOGOUT"
    /\ Fault
    /\ IF request \in {"ALERT_TABLE", "AUDIT_TABLE"}
       THEN data' = [data EXCEPT ![request] = "blank"]
       ELSE UNCHANGED data
    /\ Return(DOH_RESPONSE)
    /\ UNCHANGED <<now, session, reply, buffer, open, failed, last, heard,
                   serverVars, callVars>>

-----------------------------------------------------------------------------
(* fetch_doh_information.                                                  *)

Fetch ==
    /\ pc = "idle"
    /\ fetches < MaxFetches
    /\ Resident \/ result = 0
    /\ fetches' = fetches + 1
    /\ pc' = "call"
    /\ at' = 1
    /\ phase' = "first"
    /\ result' = 0
    /\ asked' = {Sequence[1]}
    /\ UNCHANGED <<now, faults, status, session, reply, buffer, open, failed,
                   cacheVars, serverVars>>

\* The client logs in when the first answer asks for it, never on a retry.
LoginDueAgain == status = DOH_NEED_LOGIN
LoginDueOnFailure == phase = "first" /\ status # DOH_SUCCESS
LoginDue == phase = "first" /\ status = DOH_NEED_LOGIN

GivesUp == phase \in {"first", "login"} /\ status = DOH_RESPONSE

ResultWhenAsked(s) == IF s = DOH_NEED_LOGIN THEN -1 ELSE 1
Result(s) == IF s = DOH_RESPONSE THEN -1 ELSE 1

Call(p) ==
    /\ pc' = "call"
    /\ phase' = p
    /\ UNCHANGED <<now, faults, fetches, status, result, session, reply, buffer, open,
                   failed, cacheVars, serverVars>>

\* LOGOUT, LOGIN, and the request once more.
LogOutFirst ==
    /\ pc = "returned"
    /\ LoginDue
    /\ Call("logout")
    /\ UNCHANGED <<at, asked>>

LogIn ==
    /\ pc = "returned"
    /\ phase = "logout"
    /\ Call("login")
    /\ UNCHANGED <<at, asked>>

Retry ==
    /\ pc = "returned"
    /\ phase = "login"
    /\ ~GivesUp
    /\ Call("retry")
    /\ UNCHANGED <<at, asked>>

Answered == phase \in {"first", "retry"} /\ ~LoginDue /\ ~GivesUp

NextRequest ==
    /\ pc = "returned"
    /\ Answered
    /\ at < Len(Sequence)
    /\ at' = at + 1
    /\ asked' = asked \cup {Sequence[at + 1]}
    /\ Call("first")

FetchReturns ==
    /\ pc = "returned"
    /\ GivesUp \/ (Answered /\ at = Len(Sequence))
    /\ pc' = "idle"
    /\ result' = Result(status)
    /\ UNCHANGED <<now, faults, fetches, at, phase, asked, status, session, reply, buffer,
                   open, failed, cacheVars, serverVars>>

-----------------------------------------------------------------------------
\* main returns, or the process died: the next one starts from nothing, and
\* the server still honours what the old one had.
Restart ==
    /\ pc = "crashed" \/ (pc = "idle" /\ result # 0)
    /\ fetches < MaxFetches
    /\ session' = NoSession
    /\ last' = [g \in Asked |-> Never]
    /\ data' = Blank
    /\ heard' = [g \in Asked |-> "nothing"]
    /\ open' = [r \in Resources |-> 0]
    /\ failed' = [s \in LeakySteps |-> 0]
    /\ pc' = "idle"
    /\ at' = 1
    /\ phase' = "first"
    /\ status' = DOH_SUCCESS
    /\ result' = 0
    /\ reply' = NoReply
    /\ buffer' = FALSE
    /\ asked' = {}
    /\ lost' = live
    /\ UNCHANGED <<now, faults, fetches, live>>

Tick ==
    /\ now < MaxTime
    /\ now' = now + 1
    /\ UNCHANGED <<faults, pc, status, session, reply, buffer, open, failed,
                   cacheVars, serverVars, callVars>>

Request ==
    \/ AnswerFromCache \/ OpenFails \/ Open \/ SendFails \/ Send
    \/ NoBuffer \/ OpenFile \/ NoFile \/ Crash
    \/ Read \/ ReadShort \/ ReadFails
    \/ ParseLogin \/ ParseLogout \/ ParseRefused \/ ParseSupernova \/ ParseHost
    \/ ParseUser \/ ParseStorage \/ ParseAlerts \/ ParseAudits \/ NoReader

Step == Request \/ LogOutFirst \/ LogIn \/ Retry \/ NextRequest \/ FetchReturns

Next == Step \/ Fetch \/ Restart \/ Expire \/ Tick

Spec == Init /\ [][Next]_vars

\* The process runs on; a server that takes a request answers it or goes away.
FairSpec == Spec /\ WF_vars(Step)

-----------------------------------------------------------------------------
(* Properties.                                                             *)

Kinds == {"data", "part", "error", "cut error", "login required"}

\* Every variable stays in its range.
TypeOK ==
    /\ now \in 0..MaxTime
    /\ fetches \in 0..MaxFetches /\ faults \in 0..MaxFaults
    /\ pc \in {"idle", "call", "send", "sent", "read", "parse", "returned", "crashed"}
    /\ buffer \in BOOLEAN
    /\ at \in DOMAIN Sequence
    /\ phase \in {"first", "logout", "login", "retry"}
    /\ status \in {DOH_SUCCESS, DOH_RESPONSE, DOH_NEED_LOGIN}
    /\ result \in {-1, 0, 1}
    /\ session \in Sessions \cup {Anonymous, NoSession}
    /\ reply.kind \in Kinds \cup {"none", "granted", "refused", "bye"}
    /\ reply.id \in Sessions \cup {NoSession}
    /\ reply.cookie \in {Anonymous, NoSession}
    /\ last \in [Asked -> {Never} \cup 0..MaxTime]
    /\ data \in [Asked -> {"blank", "values"}]
    /\ heard \in [Asked -> Kinds \cup {"nothing"}]
    /\ open \in [Resources -> Nat] /\ failed \in [LeakySteps -> Nat]
    /\ live \subseteq Sessions /\ lost \subseteq Sessions
    /\ asked \subseteq Asked

\* A cache that is served without asking was filled from an answer: its group
\* was last parsed from neither a demand to log in nor a message that broke
\* off inside its error, and the supernova's from no error at all.
FreshWasAnswered ==
    \A g \in Asked :
        Fresh(g) => /\ heard[g] \in {"data", "part", "error"}
                    /\ g = "SUPERNOVA" => heard[g] # "error"

\* What the six caches hold and how old each claims to be fit together.
CachesAreSound == TypeOK /\ FreshWasAnswered

\* A name, licence, size or list that is shown comes from the answer last
\* parsed: none outlives an answer that refused or broke off in its error,
\* however the requests before it went.
ShownIsLatest ==
    \A g \in Asked : data[g] = "values" => heard[g] \in {"data", "part"}

\* The server honours one session of this client: the current one, and beyond
\* it those whose id never reached the client or was lost with its process.
NoForgottenSession == live \subseteq {session} \cup lost

\* A fetch that reports success has put every request of its sequence.
SuccessAskedAll == result = 1 => asked = Asked

\* A request that is over has given back what it took, but for one thing that
\* each of four failures leaves: no context (2291), no SSL object (2297), an
\* error while reading (2468), a login refused (358).
LeaksAreKnown ==
    pc \in {"idle", "call", "returned"} =>
        /\ open["socket"] = failed["ctx"]
        /\ open["SSL_CTX"] = failed["ssl"]
        /\ open["SSL"] = 0
        /\ open["file"] = failed["read"]
        /\ open["reader"] = failed["login"]

\* A fetch ends, or the process crashes in it, whatever the server answers and
\* whenever sessions expire.
FetchEnds == pc = "call" ~> pc \in {"idle", "crashed"}

=============================================================================
