------------------------------- MODULE Actor -------------------------------
(***************************************************************************)
(* The Matter thread's actor and the interactions it runs                  *)
(* (server/src/matter/actor.rs, server/src/matter/interaction.rs).         *)
(*                                                                         *)
(* Callers are the threads of the connections and of the monitor.  A call  *)
(* sends its request into a bounded channel, waiting for room without a    *)
(* time limit, and then waits for the reply or for the operation's own     *)
(* time-out.  The actor takes requests before anything else and runs all   *)
(* that it has taken side by side, each one exchange with a device; a      *)
(* request whose caller has gone runs on.                                  *)
(*                                                                         *)
(* The device is external: it acts on a request once, and answers in       *)
(* chunks.  A chunk is the set of what its entries are.                    *)
(***************************************************************************)
EXTENDS Integers, Sequences

CONSTANTS
    Callers,
    Ops,          \* the operations that are called, among OpKinds
    ChannelSize,  \* the capacity of the channel
    MaxCalls,     \* bound: calls
    MaxChunks     \* bound: chunks of an answer

\* MatterOp.  The ones that touch only this server are "local".
OpKinds == {"local", "read", "subscribe", "write", "invoke", "ping"}
Changing == {"write", "invoke"}

ASSUME ActorAssumption ==
    /\ Ops \subseteq OpKinds
    /\ {ChannelSize, MaxChunks} \subseteq Nat \ {0}
    /\ MaxCalls \in Nat

VARIABLES
    caller,    \* what each caller is doing: [at, call]
    calls,     \* every call, in the order they were made
    channel,   \* the bounded channel: calls
    taken,     \* the calls that are in flight
    actorUp,   \* the Matter thread runs the actor
    effects    \* the calls on which the device acted

actorVars == <<caller, calls, channel, taken, actorUp, effects>>

Free == [at |-> "free", call |-> 0]

ActorInit ==
    /\ caller = [c \in Callers |-> Free]
    /\ calls = <<>> /\ channel = <<>> /\ taken = {}
    /\ actorUp = TRUE
    /\ effects = {}

-----------------------------------------------------------------------------
(* MatterHandle::call.                                                     *)

\* The request is made.
Call(c, op) ==
    /\ caller[c].at = "free" /\ Len(calls) < MaxCalls
    /\ calls' = Append(calls, [op |-> op, step |-> "queued", request |-> "unsent",
                               data |-> FALSE, status |-> FALSE, heard |-> FALSE, chunks |-> 0, result |-> "none"])
    /\ caller' = [caller EXCEPT ![c] = [at |-> "sending", call |-> Len(calls) + 1]]
    /\ UNCHANGED <<channel, taken, actorUp, effects>>

\* Room in the channel, as far as a sender can see.
HasRoom == Len(channel) < ChannelSize

Send(c) ==
    /\ caller[c].at = "sending" /\ actorUp /\ HasRoom
    /\ channel' = Append(channel, caller[c].call)
    /\ caller' = [caller EXCEPT ![c].at = "waiting"]
    /\ UNCHANGED <<calls, taken, actorUp, effects>>

\* Mutant: the channel outlives the loop that reads it.
NotRunningNever == FALSE

\* The receiver is gone: the controller is not running.
NotRunning == ~ actorUp

SendFails(c) ==
    /\ caller[c].at = "sending" /\ NotRunning
    /\ caller' = [caller EXCEPT ![c] = Free]
    /\ UNCHANGED <<calls, channel, taken, actorUp, effects>>

\* The reply.
Receive(c) ==
    /\ caller[c].at = "waiting" /\ calls[caller[c].call].step = "replied"
    /\ caller' = [caller EXCEPT ![c] = Free]
    /\ UNCHANGED <<calls, channel, taken, actorUp, effects>>

\* The time-out, or a reply channel dropped by an actor that was stopped,
\* which is reported in the same words.
Expire(c) ==
    /\ caller[c].at = "waiting" /\ calls[caller[c].call].step # "replied"
    /\ caller' = [caller EXCEPT ![c] = Free]
    /\ UNCHANGED <<calls, channel, taken, actorUp, effects>>

-----------------------------------------------------------------------------
(* The actor's loop.                                                       *)

\* A request is taken whenever there is one.
MayTake == channel # <<>>

Take ==
    /\ actorUp /\ MayTake
    /\ taken' = taken \cup {Head(channel)}
    /\ channel' = Tail(channel)
    /\ calls' = [calls EXCEPT ![Head(channel)].step = "taken"]
    /\ UNCHANGED <<caller, actorUp, effects>>

\* In-flight requests are polled once no request is waiting.
Polls(i) == actorUp /\ i \in taken /\ ~ MayTake

\* serve: the reply is sent, and nobody need be there.
Reply(i, call) ==
    /\ calls' = [calls EXCEPT ![i] = [call EXCEPT !.step = "replied"]]
    /\ taken' = taken \ {i}
    /\ UNCHANGED <<caller, channel, actorUp>>
Replies(i, result) == Reply(i, [calls[i] EXCEPT !.result = result]) /\ UNCHANGED effects
Continues(i, call) ==
    /\ calls' = [calls EXCEPT ![i] = call]
    /\ UNCHANGED <<caller, channel, taken, actorUp>>

\* The fabric, the label, a verifier, a grant: no exchange.  The label may be
\* refused, a fabric may be missing or not be saved.
RunLocal(i) ==
    /\ Polls(i) /\ calls[i].step = "taken" /\ calls[i].op = "local"
    /\ \E result \in {"ok", "sdk_error"} : Replies(i, result)

\* open: a CASE session, which may be one that is already held.
OpenExchange(i) ==
    /\ Polls(i) /\ calls[i].step = "taken" /\ calls[i].op # "local"
    /\ Continues(i, [calls[i] EXCEPT !.step = "open", !.request = "sent"])
    /\ UNCHANGED effects

\* reach_error: nothing answered, or the node refused the session.  Without a
\* fabric no session is tried.
OpenFails(i) ==
    /\ Polls(i) /\ calls[i].step = "taken" /\ calls[i].op # "local"
    /\ \E why \in {"not_resolving", "not_ready", "sdk_error"} : Replies(i, why)

\* The device acts on the request, which is sent again until it is
\* acknowledged and acted on once.  It may refuse.  Nothing calls a request
\* back that is under way.
DeviceActs(i) ==
    /\ calls[i].request = "sent"
    /\ \E refuses \in BOOLEAN :
          /\ Continues(i, [calls[i] EXCEPT !.request = "acted", !.status = refuses])
          /\ effects' = IF calls[i].op \in Changing /\ ~ refuses THEN effects \cup {i}
                        ELSE effects

\* Mutant: silence in the middle of an answer is silence of the node.
FailureIsSilence(i) == {"not_resolving", "not_ready"}

\* What an exchange that breaks off may be reported as: a ping whose first
\* answer never came by way of reach_error, if its read was begun at all.
FailureOf(i) ==
    {"sdk_error"} \cup
        IF calls[i].op = "ping" /\ ~ calls[i].heard THEN {"not_resolving", "not_ready"} ELSE {}

\* The exchange breaks off: MRP gives up, or the session is gone.
ExchangeFails(i) ==
    /\ Polls(i) /\ calls[i].step = "open"
    /\ \E why \in FailureOf(i) : Replies(i, why)

\* Mutant: one path that cannot be read fails them all.
ReadFailedOnAny(call) == call.status

\* read_attributes: an error only if there was nothing but failures.
ReadFailed(call) == call.status /\ ~ call.data

\* What the whole answer comes to: the status of a write is reported, the one
\* of a command is an error.
Outcome(call) ==
    IF \/ call.op = "read" /\ ReadFailed(call)
       \/ call.op \in Changing /\ call.status
    THEN "refused" ELSE "ok"

\* Mutant: a write is answered for as soon as it is sent.
HasAnswerWhenSent(call) == call.request = "acted" \/ call.op = "write"

\* A response is handled once the device has sent it.
HasAnswer(call) == call.request = "acted"

\* A chunk of the answer: collect_attributes, or the statuses of a write or an
\* invoke.  A command's failure ends it at once; a write has one chunk.
Chunk(i, data, status, more) ==
    /\ Polls(i) /\ calls[i].step = "open" /\ HasAnswer(calls[i])
    /\ calls[i].op \in Changing => ~ data /\ ~ status
    /\ LET call == [calls[i] EXCEPT !.heard = TRUE, !.chunks = @ + 1,
                                    !.data = @ \/ data, !.status = @ \/ status]
       IN  IF more THEN /\ call.chunks < MaxChunks /\ call.op # "write"
                        /\ ~ (call.op = "invoke" /\ call.status)
                        /\ Continues(i, call)
                   ELSE Reply(i, [call EXCEPT !.result = Outcome(call)])
    /\ UNCHANGED effects

\* The thread ends: what is queued or in flight is dropped with it.
ActorStops ==
    /\ actorUp /\ actorUp' = FALSE
    /\ channel' = <<>> /\ taken' = {}
    /\ UNCHANGED <<caller, calls, effects>>

ActorRuns ==
    \/ Take
    \/ \E i \in taken :
          \/ RunLocal(i) \/ OpenExchange(i) \/ OpenFails(i)
          \/ ExchangeFails(i)
          \/ \E data, status, more \in BOOLEAN : Chunk(i, data, status, more)

CallProceeds(c) == Send(c) \/ SendFails(c) \/ Receive(c) \/ Expire(c)

ActorNext ==
    \/ \E c \in Callers : (\E op \in Ops : Call(c, op)) \/ CallProceeds(c)
    \/ ActorRuns
    \/ \E i \in DOMAIN calls : DeviceActs(i)
    \/ ActorStops

ActorSpec == ActorInit /\ [][ActorNext]_actorVars

-----------------------------------------------------------------------------
(* Properties.                                                             *)

\* A write or a command that is reported as done has been done by then, so
\* that a caller that waits for each answer sees its changes take effect in
\* order though requests run side by side.  After a time-out this is lost.
SuccessMeansDone ==
    \A i \in DOMAIN calls :
        calls[i].op \in Changing /\ calls[i].result = "ok" => i \in effects

\* A path that cannot be read never hides what another chunk of the answer
\* holds (matter/interaction.rs:73).
PartialReadsSucceed ==
    \A i \in DOMAIN calls : calls[i].op = "read" /\ calls[i].result = "refused" => ~ calls[i].data

\* A node from which anything was heard is not reported as one that does not
\* resolve (matter/interaction.rs:45).
HeardNodesResolve ==
    \A i \in DOMAIN calls : calls[i].heard => calls[i].result # "not_resolving"

\* What a caller is told of its request is so (matter/interaction.rs:31).
AnswersAreTrue == SuccessMeansDone /\ PartialReadsSucceed /\ HeardNodesResolve

\* Nobody is blocked on the channel for ever, although sending has no
\* time-out: the actor always comes back to it, or ends and drops it.
EveryCallReturns ==
    \A c \in Callers : (caller[c].at = "sending") ~> (caller[c].at = "free")
=============================================================================
