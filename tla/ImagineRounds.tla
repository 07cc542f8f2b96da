---------------------------- MODULE ImagineRounds ----------------------------
(***************************************************************************)
(* One image generation over the upstream's websocket, StreamImages in     *)
(* src/app/dataplane/reverse/transport/imagine_ws.go: connections with a   *)
(* proxy lease each, rounds on a connection, and image slots in a round.   *)
(* A round ends when enough images are complete, when all slots are done,  *)
(* at its timeout, or with the connection.                                 *)
(*                                                                         *)
(* External: the upstream, which may close, stay silent, report an error,  *)
(* or moderate any image; it starts an image at most once in a round.      *)
(***************************************************************************)
EXTENDS Integers, FiniteSets

CONSTANTS Image,     \* image slots the upstream may open in a round
          N,         \* images asked for
          Retries    \* defaultImagineConnectRetries

VARIABLES stage,      \* where StreamImages is
          attempt,    \* connection attempts of this connection
          owed,       \* history: leases taken and not yet reported on
          collected,  \* images collected (capped at N)
          slots,      \* the round's slots: image -> "none", "started", "blob", "done"
          completed,  \* final images of this round
          wsClosed,
          events,     \* what was appended in the round: kinds not yet moved to the result
          result,     \* history: "error" once an error event is in the result
          emitted     \* history: finals emitted of each image in this round

vars == <<stage, attempt, owed, collected, slots, completed, wsClosed, events, result, emitted>>

NoSlots == [i \in Image |-> "none"]
Init ==
    /\ stage = "connect"
    /\ attempt = 0 /\ owed = 0 /\ collected = 0 /\ completed = 0
    /\ slots = NoSlots
    /\ wsClosed = FALSE
    /\ events = {}
    /\ result = "open"
    /\ emitted = [i \in Image |-> 0]

Open == {i \in Image : slots[i] \in {"started", "blob"}}
AllSlotsDone == Open = {} /\ \E i \in Image : slots[i] = "done"
Finals(set) == [i \in Image |-> IF i \in set THEN emitted[i] + 1 ELSE emitted[i]]

-----------------------------------------------------------------------------
(* connectImagineWebSocket: a transport error is reported and tried again,   *)
(* any other error is left for StreamImages to report.                       *)

ConnectWebSocket ==
    /\ stage = "connect"
    /\ owed' = owed + 1
    /\ stage' = "send" /\ attempt' = 0
    /\ UNCHANGED <<collected, slots, completed, wsClosed, events, result, emitted>>
ConnectRetried ==
    /\ stage = "connect" /\ attempt < Retries - 1
    /\ attempt' = attempt + 1
    /\ UNCHANGED <<stage, owed, collected, slots, completed, wsClosed, events, result, emitted>>
ConnectFails(leased) ==
    /\ stage = "connect"
    /\ owed' = IF leased THEN owed + 1 ELSE owed
    /\ result' = "error"
    /\ stage' = "report"
    /\ UNCHANGED <<attempt, collected, slots, completed, wsClosed, events, emitted>>

-----------------------------------------------------------------------------
(* streamImagineRound. *)

SendRoundStart ==
    /\ stage = "send"
    /\ stage' = "receive"
    /\ slots' = NoSlots /\ completed' = 0 /\ wsClosed' = FALSE
    /\ emitted' = [i \in Image |-> 0]
    /\ UNCHANGED <<attempt, owed, collected, events, result>>
SendFails ==
    /\ stage = "send"
    /\ stage' = "round"
    /\ events' = {"error"} /\ wsClosed' = TRUE
    /\ UNCHANGED <<attempt, owed, collected, slots, completed, result, emitted>>

StartStage(i) ==
    /\ stage = "receive" /\ slots[i] = "none"
    /\ slots' = [slots EXCEPT ![i] = "started"]
    /\ UNCHANGED <<stage, attempt, owed, collected, completed, wsClosed, events, result, emitted>>
ImageFrame(i) ==
    /\ stage = "receive" /\ i \in Open
    /\ slots' = [slots EXCEPT ![i] = "blob"]
    /\ UNCHANGED <<stage, attempt, owed, collected, completed, wsClosed, events, result, emitted>>
(* A completed frame: the slot is done, a final or a moderated event is      *)
(* added; with all slots done the connection is probed.                      *)
Completed(i, moderated) ==
    LET done == [slots EXCEPT ![i] = "done"]
        total == IF moderated THEN completed ELSE completed + 1
        all == Open = {i}
    IN /\ stage = "receive" /\ i \in Open
       /\ slots' = done
       /\ completed' = total
       /\ emitted' = IF moderated THEN emitted ELSE Finals({i})
       /\ events' = events \cup {IF moderated THEN "moderated" ELSE "final"}
       /\ stage' = CASE all -> "probe"
                     [] ~all /\ total >= N - collected -> "round"
                     [] OTHER -> "receive"
       /\ UNCHANGED <<attempt, owed, collected, wsClosed, result>>
ErrorFrame ==
    /\ stage = "receive"
    /\ stage' = "round" /\ wsClosed' = TRUE
    /\ events' = events \cup {"error"}
    /\ UNCHANGED <<attempt, owed, collected, slots, completed, result, emitted>>
(* A receive timeout matters only when all slots are done. *)
ReceiveTimeout ==
    /\ stage = "receive" /\ AllSlotsDone
    /\ stage' = "probe"
    /\ UNCHANGED <<attempt, owed, collected, slots, completed, wsClosed, events, result, emitted>>
ProbeClosed ==
    /\ stage = "probe"
    /\ wsClosed' \in BOOLEAN
    /\ stage' = "round"
    /\ UNCHANGED <<attempt, owed, collected, slots, completed, events, result, emitted>>
(* imagineBestEffortFinals of a connection that was closed. *)
SocketCloses ==
    LET late == {i \in Image : slots[i] = "blob"} IN
    /\ stage = "receive"
    /\ stage' = "round" /\ wsClosed' = TRUE
    /\ completed' = completed + Cardinality(late)
    /\ emitted' = Finals(late)
    /\ events' = IF late = {} THEN events ELSE events \cup {"final"}
    /\ UNCHANGED <<attempt, owed, collected, slots, result>>
(* imagineTimeoutEvents: in the order of a map, so an error may come before  *)
(* or after any of the best-effort finals; what follows it is thrown away.   *)
RoundTimesOut ==
    LET late == {i \in Image : slots[i] = "blob"}
        missing == \E i \in Image : slots[i] = "started"
    IN /\ stage = "receive"
       /\ stage' = "round" /\ wsClosed' = FALSE
       /\ \E kept \in IF missing THEN SUBSET late ELSE {late} :
            /\ completed' = completed + Cardinality(kept)
            /\ emitted' = Finals(kept)
            /\ events' = events \cup (IF kept = {} THEN {} ELSE {"final"})
                                \cup (IF missing THEN {"error"} ELSE {})
       /\ UNCHANGED <<attempt, owed, collected, slots, result>>
(* Receive fails otherwise: the round's events are lost with the error.      *)
ReceiveFails ==
    /\ stage = "receive"
    /\ stage' = "report" /\ result' = "error"
    /\ events' = {}
    /\ UNCHANGED <<attempt, owed, collected, slots, completed, wsClosed, emitted>>

(* runImagineConnection: the round's events go to the result, the finals are *)
(* counted, and an error, a closed connection or enough images end it.       *)
EndRound ==
    LET total == collected + completed
        capped == IF total > N THEN N ELSE total
    IN /\ stage = "round"
       /\ collected' = capped
       /\ result' = IF "error" \in events THEN "error" ELSE result
       /\ events' = {}
       /\ stage' = IF "error" \in events \/ wsClosed \/ capped >= N THEN "report" ELSE "send"
       /\ UNCHANGED <<attempt, owed, slots, completed, wsClosed, emitted>>

(* Faulty variant: the feedback is only given for complete generations. *)
ReportComplete ==
    /\ stage = "report"
    /\ owed' = IF owed > 0 /\ collected >= N THEN owed - 1 ELSE owed
    /\ stage' = IF result = "error" \/ collected >= N THEN "returned" ELSE "connect"
    /\ attempt' = 0
    /\ UNCHANGED <<collected, slots, completed, wsClosed, events, result, emitted>>

(* StreamImages: one feedback for the connection's lease, then the end or    *)
(* another connection.                                                       *)
Report ==
    /\ stage = "report"
    /\ owed' = IF owed > 0 THEN owed - 1 ELSE 0
    /\ stage' = IF result = "error" \/ collected >= N THEN "returned" ELSE "connect"
    /\ attempt' = 0
    /\ UNCHANGED <<collected, slots, completed, wsClosed, events, result, emitted>>

Step ==
    \/ ConnectWebSocket \/ ConnectRetried \/ (\E leased \in BOOLEAN : ConnectFails(leased))
    \/ SendRoundStart \/ SendFails \/ ErrorFrame \/ ReceiveTimeout \/ ProbeClosed \/ SocketCloses
    \/ RoundTimesOut \/ ReceiveFails \/ EndRound \/ Report
    \/ \E i \in Image : StartStage(i) \/ ImageFrame(i) \/ \E moderated \in BOOLEAN : Completed(i, moderated)
Next == Step

Spec == Init /\ [][Next]_vars

-----------------------------------------------------------------------------

(* The generation's counters and slots stay in their ranges. *)
TypeOK ==
    /\ stage \in {"connect", "send", "receive", "probe", "round", "report", "returned"}
    /\ attempt \in 0..Retries /\ owed \in 0..1 /\ collected \in 0..N
    /\ \A i \in Image : slots[i] \in {"none", "started", "blob", "done"}

(* Every proxy lease is reported on exactly once, whatever way the           *)
(* connection ends: nothing is owed while the next lease is taken, nor when  *)
(* StreamImages returns.                                                     *)
LeasesAreReported == stage \in {"connect", "returned"} => owed = 0

(* An image is final at most once in a round, though frames, the timeout and *)
(* the end of the connection all make finals.                                *)
OneFinalPerImage == \A i \in Image : emitted[i] <= 1

(* An error event is the last one: nothing is generated after it             *)
(* (runImagineConnection, imagineLastEventIsError).                          *)
ErrorsComeLast == [][result = "error" => stage' \in {"report", "returned"} /\ collected' = collected]_vars

(* However the rounds of a generation end, everything is accounted for once. *)
RoundsAreTrue == [](TypeOK /\ LeasesAreReported /\ OneFinalPerImage) /\ ErrorsComeLast
=============================================================================
