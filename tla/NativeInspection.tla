--------------------------- MODULE NativeInspection ---------------------------
(***************************************************************************)
(* A thread of the native engine and the security process.  The thread     *)
(* reads the requests; it judges some of them clean alone and sends the    *)
(* others over its channel as INSPECT frames, waits for the VERDICT of     *)
(* each with a delay, then routes.  A route of Python is delegated by a    *)
(* second frame under the same number, or the whole connection is handed   *)
(* off.  Without a verdict, waf.on_internal_error decides.                 *)
(*                                                                         *)
(* The number of a request stands for its random identifier, and is given  *)
(* when the thread begins to read it.  What the lists, the rules and the   *)
(* routes hold is left open: each answer they may lead to is a choice.     *)
(***************************************************************************)
EXTENDS Naturals, Sequences, FiniteSets

CONSTANTS
    Connection,       \* sockets of clients the thread may hold
    MaxQueued,        \* kMaxQueuedInspects
    MaxNumber,        \* bound: requests
    MaxChannelFaults  \* bound: deaths of the security process, verdicts it cannot send

ASSUME InspectionAssumption == {MaxQueued, MaxNumber, MaxChannelFaults} \subseteq Nat

Number == 1..MaxNumber

VARIABLES
    busy,      \* phase of each connection; "delegate": it waits for the answer of a route of Python
    number,     \* of the request it reads, awaits or answers; 0 without a connection
    lenient,    \* the connections whose configuration is fail-open: that of their accept
    link,       \* data_fd: "none", "open", or "dead": the process at the other end has ended
    queue,      \* data_out: frames not yet sent
    awaited,    \* awaiting_verdict: pairs of a number and a connection
    inPython,   \* frames that the security process is working on
    verdicts,   \* its frames not yet read, in any order: each request is a task of its own
    \* history variables and bounds
    lastNumber,
    ruled,      \* the request of each connection was judged: "clean" by the thread, or the verdict of Python
    answers,    \* what its client is given
    channelFaults

clientVars     == <<busy, number, lenient, lastNumber>>
channelVars    == <<link, queue, inPython, verdicts>>
inspectionVars == <<clientVars, channelVars, awaited, ruled, answers, channelFaults>>

Questions == {"inspect", "delegate"}
Phase     == Questions \cup {"none", "read", "write"}
Frame     == [number : Number, kind : Questions \cup {"handoff"}]
VerdictOf == [number : Number, says : {"continue", "refusal", "closed", "delegated"}]
Given     == {"page", "delegated", "refusal", "451", "500", "503", "closed", "handed"}

InspectionInit ==
    /\ busy = [c \in Connection |-> "none"] /\ number = [c \in Connection |-> 0]
    /\ lenient = {} /\ lastNumber = 0
    /\ link = "open" /\ queue = << >> /\ inPython = {} /\ verdicts = {} /\ awaited = {}
    /\ ruled = [c \in Connection |-> "none"] /\ answers = [c \in Connection |-> "none"]
    /\ channelFaults = 0

ChannelFault == channelFaults < MaxChannelFaults /\ channelFaults' = channelFaults + 1

-----------------------------------------------------------------------------
\* The answers and the ends given to the connections in the domain of given: respond, close_connection.
Answer(given) ==
    LET Ends(c) == c \in DOMAIN given /\ given[c] \in {"closed", "handed"}
    IN  /\ answers' = [c \in Connection |-> IF Ends(c) THEN "none" ELSE IF c \in DOMAIN given THEN given[c] ELSE answers[c]]
        /\ busy' = [c \in Connection |-> IF Ends(c) THEN "none" ELSE IF c \in DOMAIN given THEN "write" ELSE busy[c]]
        /\ number' = [c \in Connection |-> IF Ends(c) THEN 0 ELSE number[c]]
        /\ UNCHANGED <<lenient, lastNumber>>

AnswerOne(c, a) == Answer([d \in {c} |-> a])

\* inspection_failed where nothing can be delegated either: the banned addresses are refused, the
\* routes of Python too, the rest is served.
Otherwise(c, question) ==
    IF question = "delegate" \/ c \notin lenient THEN {"503"} ELSE {"451", "page", "503", "closed"}

\* data_channel_lost: the frames not sent are dropped, with the connections they carry, and every request that
\* waits fails.  Asking are the connections that wait and what for, given the answers already given by the handler.
LoseChannel(asking, given, newLink) ==
    /\ \E failed \in [DOMAIN asking -> {"451", "page", "503", "closed"}] :
          /\ \A c \in DOMAIN asking : failed[c] \in Otherwise(c, asking[c])
          /\ Answer([c \in DOMAIN asking \cup DOMAIN given |-> IF c \in DOMAIN given THEN given[c] ELSE failed[c]])
    /\ link' = newLink /\ queue' = << >> /\ inPython' = {} /\ verdicts' = {} /\ awaited' = {}

Asking(waits) == [c \in {w[2] : w \in waits} |-> busy[c]]
Nothing       == [c \in {} |-> "none"]

\* flush_data_out: the socket takes what it can.
SendOut(frames, sent) ==
    /\ queue' = SubSeq(frames, sent + 1, Len(frames))
    /\ inPython' = inPython \cup {frames[i] : i \in {j \in 1..sent : frames[j].kind # "handoff"}}

\* The frame of the connection c, with the waits and the verdicts that the handler leaves.
StartInspection(c, question, waits, unread) ==
    LET frame == [number |-> number[c], kind |-> question]
    IN  \/ /\ link # "none" => Len(queue) >= MaxQueued
           /\ \E a \in Otherwise(c, question) : AnswerOne(c, a)
           /\ awaited' = waits /\ verdicts' = unread
           /\ UNCHANGED <<link, queue, inPython>>
        \/ /\ link = "open" /\ Len(queue) < MaxQueued
           /\ \E sent \in 0..(Len(queue) + 1) : SendOut(Append(queue, frame), sent)
           /\ busy' = [busy EXCEPT ![c] = question]
           /\ awaited' = waits \cup {<<number[c], c>>} /\ verdicts' = unread
           /\ UNCHANGED <<number, lenient, lastNumber, link, answers>>
        \/ /\ link = "dead" /\ Len(queue) < MaxQueued
           /\ LoseChannel([d \in DOMAIN Asking(waits) \cup {c} |-> IF d = c THEN question ELSE busy[d]], Nothing, "none")

\* handle_request: a page of the native routes, an end without answer, or a route of Python.
HandleRequest(c, waits, unread) ==
    \/ /\ \E a \in {"page", "closed"} : AnswerOne(c, a)
       /\ awaited' = waits /\ verdicts' = unread
       /\ UNCHANGED <<link, queue, inPython>>
    \/ StartInspection(c, "delegate", waits, unread)

-----------------------------------------------------------------------------
\* The clients.
Reads(c) ==
    /\ lastNumber < MaxNumber /\ lastNumber' = lastNumber + 1
    /\ busy' = [busy EXCEPT ![c] = "read"] /\ number' = [number EXCEPT ![c] = lastNumber']
    /\ ruled' = [ruled EXCEPT ![c] = "none"] /\ answers' = [answers EXCEPT ![c] = "none"]
    /\ UNCHANGED <<channelVars, awaited, channelFaults>>

AcceptClient(c) ==
    /\ busy[c] = "none" /\ Reads(c)
    /\ lenient' \in {lenient \cup {c}, lenient \ {c}}

KeepAlive(c) == busy[c] = "write" /\ Reads(c) /\ UNCHANGED lenient

\* The client leaves, the delay of its head passes, or the answer is its last.
CloseConnection(c) ==
    /\ busy[c] \in {"read", "write"}
    /\ busy' = [busy EXCEPT ![c] = "none"] /\ number' = [number EXCEPT ![c] = 0]
    /\ answers' = [answers EXCEPT ![c] = "none"] /\ ruled' = [ruled EXCEPT ![c] = "none"]
    /\ lenient' = lenient \ {c}
    /\ UNCHANGED <<lastNumber, channelVars, awaited, channelFaults>>

\* process_body, with native_decision: clean_without_python wants a channel.
JudgeAlone(c) ==
    /\ busy[c] = "read" /\ link # "none"
    /\ ruled' = [ruled EXCEPT ![c] = "clean"]
    /\ HandleRequest(c, awaited, verdicts)
    /\ UNCHANGED channelFaults

Inspect(c) ==
    /\ busy[c] = "read"
    /\ StartInspection(c, "inspect", awaited, verdicts)
    /\ UNCHANGED <<ruled, channelFaults>>

HandOff(c) ==
    LET frame == [number |-> number[c], kind |-> "handoff"]
    IN  /\ busy[c] = "read"
        /\ \/ /\ link # "none" => Len(queue) >= MaxQueued
              /\ AnswerOne(c, "503")
              /\ UNCHANGED <<channelVars, awaited>>
           \/ /\ link = "open" /\ Len(queue) < MaxQueued
              /\ \E sent \in 0..(Len(queue) + 1) : SendOut(Append(queue, frame), sent)
              /\ AnswerOne(c, "handed")
              /\ UNCHANGED <<link, verdicts, awaited>>
           \/ /\ link = "dead" /\ Len(queue) < MaxQueued
              /\ LoseChannel(Asking(awaited), [d \in {c} |-> "handed"], "none")
        /\ UNCHANGED <<ruled, channelFaults>>

-----------------------------------------------------------------------------
\* The channel.
FlushQueue ==
    /\ link = "open" /\ queue # << >>
    /\ \E sent \in 1..Len(queue) : SendOut(queue, sent)
    /\ UNCHANGED <<clientVars, link, verdicts, awaited, ruled, answers, channelFaults>>

\* Mutant of SeeTheEnd: the requests that wait are left to their delay.
SeeTheEndAlone ==
    /\ link = "dead" /\ (queue # << >> \/ verdicts = {})
    /\ link' = "none" /\ queue' = << >> /\ inPython' = {} /\ verdicts' = {}
    /\ UNCHANGED <<clientVars, awaited, ruled, answers, channelFaults>>

\* The end of the process is seen when a frame cannot be sent, or past its last verdict.
SeeTheEnd ==
    /\ link = "dead" /\ (queue # << >> \/ verdicts = {})
    /\ LoseChannel(Asking(awaited), Nothing, "none")
    /\ UNCHANGED <<ruled, channelFaults>>

\* poll_new_data_channel: the supervisor has started another process.
AdoptChannel ==
    /\ link # "open"
    /\ LoseChannel(Asking(awaited), Nothing, "open")
    /\ UNCHANGED <<ruled, channelFaults>>

\* Mutant of WaitsFor: the verdicts are taken in the order of the requests.
WaitsFirst(v) == {c \in Connection : busy[c] \in Questions
                                      /\ \A d \in Connection : busy[d] \in Questions => number[c] <= number[d]}

\* The connection that waits for this verdict.
WaitsFor(v) == {c \in Connection : <<v.number, c>> \in awaited /\ busy[c] \in Questions /\ number[c] = v.number}

ApplyVerdict(v) ==
    LET waits == {w \in awaited : w[1] # v.number}
    IN  /\ v \in verdicts
        /\ \/ /\ WaitsFor(v) = {}
              /\ verdicts' = verdicts \ {v} /\ awaited' = waits
              /\ UNCHANGED <<clientVars, link, queue, inPython, answers>>
           \/ \E c \in WaitsFor(v) :
                 \/ /\ v.says = "continue" /\ busy[c] = "inspect"
                    /\ HandleRequest(c, waits, verdicts \ {v})
                 \/ /\ v.says = "continue" => busy[c] = "delegate"
                    /\ AnswerOne(c, IF v.says = "continue" THEN "500" ELSE v.says)
                    /\ awaited' = waits /\ verdicts' = verdicts \ {v}
                    /\ UNCHANGED <<link, queue, inPython>>
        /\ UNCHANGED <<ruled, channelFaults>>

\* check_deadlines
DelayPasses(c) ==
    LET waits == {w \in awaited : w[2] # c}
    IN  /\ busy[c] \in Questions
        /\ \/ /\ busy[c] = "delegate" \/ c \notin lenient
              /\ AnswerOne(c, "503")
              /\ awaited' = waits
              /\ UNCHANGED <<channelVars>>
           \/ /\ busy[c] = "inspect" /\ c \in lenient
              /\ AnswerOne(c, "451")
              /\ awaited' = waits
              /\ UNCHANGED <<channelVars>>
           \/ /\ busy[c] = "inspect" /\ c \in lenient
              /\ HandleRequest(c, waits, verdicts)
        /\ UNCHANGED <<ruled, channelFaults>>

-----------------------------------------------------------------------------
\* The security process: _inspect.  A verdict that the socket does not take is lost.
Return(f, says) ==
    /\ f \in inPython
    /\ inPython' = inPython \ {f}
    /\ \/ /\ verdicts' = verdicts \cup {[number |-> f.number, says |-> says]}
          /\ UNCHANGED channelFaults
       \/ ChannelFault /\ UNCHANGED verdicts
    /\ UNCHANGED <<clientVars, link, queue, awaited, answers>>

SecurityStage(f) ==
    /\ f.kind = "inspect"
    /\ \E says \in {"continue", "refusal", "closed"} :
          /\ Return(f, says)
          /\ ruled' = [c \in Connection |-> IF number[c] = f.number THEN says ELSE ruled[c]]

Route(f) ==
    /\ f.kind = "delegate"
    /\ \E says \in {"delegated", "closed"} : Return(f, says)
    /\ UNCHANGED ruled

SecurityProcessDies ==
    /\ link = "open" /\ ChannelFault
    /\ link' = "dead" /\ inPython' = {}
    /\ UNCHANGED <<clientVars, queue, verdicts, awaited, ruled, answers>>

InspectionNext ==
    \/ \E c \in Connection : AcceptClient(c) \/ KeepAlive(c) \/ CloseConnection(c)
                             \/ JudgeAlone(c) \/ Inspect(c) \/ HandOff(c) \/ DelayPasses(c)
    \/ FlushQueue \/ SeeTheEnd \/ AdoptChannel \/ (\E v \in verdicts : ApplyVerdict(v))
    \/ (\E f \in inPython : SecurityStage(f) \/ Route(f)) \/ SecurityProcessDies

InspectionSpec == InspectionInit /\ [][InspectionNext]_inspectionVars

-----------------------------------------------------------------------------
\* The variables keep their types.
InspectionTypeOK ==
    /\ busy \in [Connection -> Phase] /\ number \in [Connection -> 0..MaxNumber]
    /\ lenient \subseteq Connection /\ lastNumber \in 0..MaxNumber
    /\ link \in {"none", "open", "dead"}
    /\ queue \in Seq(Frame) /\ Len(queue) <= MaxQueued
    /\ awaited \subseteq Number \X Connection
    /\ inPython \subseteq Frame /\ verdicts \subseteq VerdictOf
    /\ ruled \in [Connection -> {"none", "clean", "continue", "refusal", "closed"}]
    /\ answers \in [Connection -> Given \cup {"none"}]
    /\ channelFaults \in 0..MaxChannelFaults

\* The table of the awaited verdicts is that of the connections that wait, through the delays, the lost
\* channels and the late verdicts: none waits when no channel can answer it, and no entry outlives its wait.
EveryWaitIsKnown ==
    /\ awaited = {<<number[c], c>> : c \in {d \in Connection : busy[d] \in Questions}}
    /\ link = "none" => awaited = {}

\* A request is served only if it, and not another of the connection, was judged clean or told to
\* continue, unless its configuration is fail-open; it is refused only on its own verdict.  An answer
\* 500 has a cause: the request was delegated after its delay, and its late verdict came before that answer.
AnswersAreRuled ==
    \A c \in Connection :
        /\ answers[c] \in {"page", "delegated"} => ruled[c] \in {"clean", "continue"} \/ c \in lenient
        /\ answers[c] = "refusal" => ruled[c] = "refusal"
        /\ answers[c] = "500" => ruled[c] = "continue" /\ c \in lenient

\* Each wait has its entry and each answer its verdict.
VerdictsAreMatched == EveryWaitIsKnown /\ AnswersAreRuled
=============================================================================
