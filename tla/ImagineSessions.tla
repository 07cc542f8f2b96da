--------------------------- MODULE ImagineSessions ---------------------------
(***************************************************************************)
(* The image page of the web UI (src/app/products/web/webui): websocket    *)
(* tickets, the limits on connections, and per connection a reader that    *)
(* starts and stops generation runs, each in a goroutine of its own.       *)
(*                                                                         *)
(* External: the browser, and StreamImagineEvents, which answers a run at  *)
(* some time or when the run is cancelled.                                 *)
(***************************************************************************)
EXTENDS Integers, FiniteSets

CONSTANTS Conn,          \* connection attempts of browsers
          Crowds,        \* which of them come: a choice of sets
          IpOf,          \* connection -> address
          Ticket,
          MaxConnections, MaxPerIP,
          TicketTTL,     \* in ticks
          MaxRuns,       \* connection -> how many runs it starts (bound)
          MaxEvents      \* events a generation returns (bound)

VARIABLES tickets,   \* ticket -> ticks left, Unissued, or 0 when used or over
          admitted,  \* history: ticket -> connections it let in
          limiter,   \* [total, byIP]
          conns,     \* the handlers and their readers
          runs       \* webUIImagineRun: <<conn, number>> -> its goroutine; and
                     \* history: whether the browser was told its end, and
                     \* the images it sent after it was cancelled

vars == <<tickets, admitted, limiter, conns, runs>>

Unissued == -1
Run == UNION {{c} \X (1..MaxRuns[c]) : c \in Conn}
IPs == {IpOf[c] : c \in Conn}
NoRun == [pc |-> "none", cancelled |-> FALSE, left |-> 0, told |-> FALSE, late |-> 0]
Coming(crowd) == [c \in Conn |-> [pc |-> IF c \in crowd THEN "new" ELSE "away",
                                  started |-> 0, current |-> 0, after |-> "read"]]

Init ==
    /\ tickets = [t \in Ticket |-> Unissued]
    /\ admitted = [t \in Ticket |-> 0]
    /\ limiter = [total |-> 0, byIP |-> [ip \in IPs |-> 0]]
    /\ conns \in {Coming(crowd) : crowd \in Crowds}
    /\ runs = [r \in Run |-> NoRun]

-----------------------------------------------------------------------------
(* Tickets: issued, used once, pruned when over. *)

Issued(t) == tickets[t] > 0
Issue(t) ==
    /\ tickets[t] = Unissued
    /\ tickets' = [tickets EXCEPT ![t] = TicketTTL]
    /\ UNCHANGED <<admitted, limiter, conns, runs>>
Tick ==
    /\ \E t \in Ticket : Issued(t)
    /\ tickets' = [t \in Ticket |-> IF Issued(t) THEN tickets[t] - 1 ELSE tickets[t]]
    /\ UNCHANGED <<admitted, limiter, conns, runs>>
(* webUIImagineAllowed with a key configured: a ticket, or the key itself.   *)
Consume(c, t) ==
    /\ conns[c].pc = "new"
    /\ tickets' = IF Issued(t) THEN [tickets EXCEPT ![t] = 0] ELSE tickets
    /\ admitted' = IF Issued(t) THEN [admitted EXCEPT ![t] = @ + 1] ELSE admitted
    /\ conns' = [conns EXCEPT ![c].pc = IF Issued(t) THEN "allowed" ELSE "refused"]
    /\ UNCHANGED <<limiter, runs>>
KeyGiven(c) ==
    /\ conns[c].pc = "new"
    /\ conns' = [conns EXCEPT ![c].pc = "allowed"]
    /\ UNCHANGED <<tickets, admitted, limiter, runs>>

-----------------------------------------------------------------------------
(* acceptWebUIWebSocket: a place, then the handshake, which may fail. *)

Release(c) == [limiter EXCEPT !.total = @ - 1, !.byIP[IpOf[c]] = @ - 1]
AcquirePlace(c) ==
    LET full == limiter.total >= MaxConnections \/ limiter.byIP[IpOf[c]] >= MaxPerIP IN
    /\ conns[c].pc = "allowed"
    /\ limiter' = IF full THEN limiter ELSE [limiter EXCEPT !.total = @ + 1, !.byIP[IpOf[c]] = @ + 1]
    /\ conns' = [conns EXCEPT ![c].pc = IF full THEN "refused" ELSE "hijack"]
    /\ UNCHANGED <<tickets, admitted, runs>>
Hijack(c) ==
    /\ conns[c].pc = "hijack"
    /\ conns' = [conns EXCEPT ![c].pc = "read"]
    /\ UNCHANGED <<tickets, admitted, limiter, runs>>
HandshakeFails(c) ==
    /\ conns[c].pc = "hijack"
    /\ limiter' = Release(c)
    /\ conns' = [conns EXCEPT ![c].pc = "refused"]
    /\ UNCHANGED <<tickets, admitted, runs>>

-----------------------------------------------------------------------------
(* The reader.  A start or stop, and the end of the connection (a close, an  *)
(* error, the read timeout), first stop the current run; the reader waits    *)
(* for it, but not longer than webUIImagineStopTimeout.                      *)

Current(c) == <<c, conns[c].current>>
StopRun(c, next) ==
    IF conns[c].current = 0
    THEN /\ conns' = [conns EXCEPT ![c].pc = next] /\ UNCHANGED runs
    ELSE /\ conns' = [conns EXCEPT ![c].pc = "stopping", ![c].after = next]
         /\ runs' = [runs EXCEPT ![Current(c)].cancelled = TRUE]
HandleStart(c) ==
    /\ conns[c].pc = "read" /\ conns[c].started < MaxRuns[c]
    /\ StopRun(c, "start")
    /\ UNCHANGED <<tickets, admitted, limiter>>
HandleStop(c) ==
    /\ conns[c].pc = "read" /\ conns[c].current # 0
    /\ StopRun(c, "read")
    /\ UNCHANGED <<tickets, admitted, limiter>>
ReadFails(c) ==
    /\ conns[c].pc = "read"
    /\ StopRun(c, "close")
    /\ UNCHANGED <<tickets, admitted, limiter>>
RunHasStopped(c) ==
    /\ conns[c].pc = "stopping" /\ runs[Current(c)].pc = "done"
    /\ conns' = [conns EXCEPT ![c].pc = conns[c].after, ![c].current = 0]
    /\ UNCHANGED <<tickets, admitted, limiter, runs>>
StopTimesOut(c) ==
    /\ conns[c].pc = "stopping" /\ runs[Current(c)].pc # "done"
    /\ conns' = [conns EXCEPT ![c].pc = conns[c].after, ![c].current = 0]
    /\ runs' = [runs EXCEPT ![Current(c)].told = TRUE]
    /\ UNCHANGED <<tickets, admitted, limiter>>
NewRun(c) ==
    LET n == conns[c].started + 1 IN
    /\ conns[c].pc = "start"
    /\ conns' = [conns EXCEPT ![c].pc = "read", ![c].started = n, ![c].current = n]
    /\ runs' = [runs EXCEPT ![<<c, n>>].pc = "generate"]
    /\ UNCHANGED <<tickets, admitted, limiter>>
(* webUIWebSocket.Close, once. *)
Close(c) ==
    /\ conns[c].pc = "close"
    /\ limiter' = Release(c)
    /\ conns' = [conns EXCEPT ![c].pc = "closed"]
    /\ UNCHANGED <<tickets, admitted, runs>>

-----------------------------------------------------------------------------
(* runImagine. *)

(* The last word of a run: that it has stopped, has completed, or an error.  *)
Ends(r) == runs' = [runs EXCEPT ![r].pc = "done", ![r].told = TRUE, ![r].left = 0]
RunOnly == UNCHANGED <<tickets, admitted, limiter, conns>>
(* The generation returns, with events, without an account, or with an       *)
(* error; a cancelled run is only told that it has stopped.                  *)
Generated(r) ==
    /\ runs[r].pc = "generate" /\ ~runs[r].cancelled
    /\ \E n \in 0..MaxEvents : runs' = [runs EXCEPT ![r].pc = "forward", ![r].left = n]
    /\ RunOnly
GenerationFails(r) ==
    /\ runs[r].pc = "generate" /\ ~runs[r].cancelled
    /\ Ends(r)
    /\ RunOnly
GenerationCancelled(r) ==
    /\ runs[r].pc = "generate" /\ runs[r].cancelled
    /\ Ends(r)
    /\ RunOnly
(* Faulty variant: the context is looked at after the last event only.       *)
ChecksAtTheEnd(r) ==
    /\ runs[r].pc = "forward"
    /\ runs' = [runs EXCEPT ![r].pc = IF runs[r].left # 0 THEN "write"
                                      ELSE IF runs[r].cancelled THEN "done" ELSE "complete"]
    /\ RunOnly

(* forwardImagineEvents looks at the context before each event and tells a   *)
(* cancelled run that it has stopped; after the last event it only returns   *)
(* whether the run is cancelled, and runImagine then ends without a word.    *)
CheckCancelled(r) ==
    /\ runs[r].pc = "forward"
    /\ CASE runs[r].left # 0 /\ runs[r].cancelled -> Ends(r)
         [] runs[r].left # 0 /\ ~runs[r].cancelled -> runs' = [runs EXCEPT ![r].pc = "write"]
         [] runs[r].left = 0 -> runs' = [runs EXCEPT ![r].pc = IF runs[r].cancelled THEN "done" ELSE "complete"]
    /\ RunOnly
(* An error event ends the run.                                              *)
ForwardEvent(r) ==
    /\ runs[r].pc = "write"
    /\ \/ runs' = [runs EXCEPT ![r].pc = "forward", ![r].left = @ - 1, ![r].late = IF runs[r].cancelled THEN @ + 1 ELSE @]
       \/ Ends(r)
    /\ RunOnly
RunCompleted(r) ==
    /\ runs[r].pc = "complete"
    /\ Ends(r)
    /\ RunOnly

RunStep(r) ==
    \/ Generated(r) \/ GenerationFails(r) \/ GenerationCancelled(r)
    \/ CheckCancelled(r) \/ ForwardEvent(r) \/ RunCompleted(r)
(* What a handler does by itself; reading waits for the browser. *)
HandlerStep(c) ==
    \/ AcquirePlace(c) \/ Hijack(c) \/ HandshakeFails(c) \/ RunHasStopped(c) \/ StopTimesOut(c)
    \/ NewRun(c) \/ Close(c)
Next ==
    \/ \E t \in Ticket : Issue(t) \/ \E c \in Conn : Consume(c, t)
    \/ \E c \in Conn : KeyGiven(c) \/ HandlerStep(c) \/ HandleStart(c) \/ HandleStop(c) \/ ReadFails(c)
    \/ \E r \in Run : RunStep(r)
    \/ Tick

Spec == Init /\ [][Next]_vars

-----------------------------------------------------------------------------

(* Connections and runs are where the code can be. *)
TypeOK ==
    /\ \A c \in Conn : conns[c].pc \in {"away", "new", "allowed", "refused", "hijack", "read", "stopping", "start",
                                        "close", "closed"}
    /\ \A r \in Run : runs[r].pc \in {"none", "generate", "forward", "write", "complete", "done"}
    /\ limiter.total \in 0..MaxConnections

(* The limiter counts exactly the connections that hold a place, so neither  *)
(* limit is exceeded and no place is lost or given back twice, through       *)
(* failed handshakes, stops that time out and closes.                        *)
Holders == {c \in Conn : conns[c].pc \in {"hijack", "read", "stopping", "start", "close"}}
PlacesAreCounted ==
    /\ limiter.total = Cardinality(Holders) /\ limiter.total <= MaxConnections
    /\ \A ip \in IPs : /\ limiter.byIP[ip] = Cardinality({c \in Holders : IpOf[c] = ip})
                       /\ limiter.byIP[ip] <= MaxPerIP

(* A ticket lets one connection in (webUIImagineTicketStore.Consume). *)
TicketsAdmitOnce == \A t \in Ticket : admitted[t] <= 1

(* All runs of a connection but the latest are cancelled, the latest too     *)
(* once the connection is closed; a run that did not stop in time may still  *)
(* send one image and its end beside its successor, not more.                *)
Uncancelled(c) == {n \in 1..MaxRuns[c] : runs[<<c, n>>].pc \notin {"none", "done"} /\ ~runs[<<c, n>>].cancelled}
OnlyLatestRuns ==
    /\ \A c \in Conn : Uncancelled(c) \subseteq (IF conns[c].pc = "closed" THEN {} ELSE {conns[c].current})
    /\ \A r \in Run : runs[r].late <= 1

(* Every run ends, and the browser is told the end of one that nobody has    *)
(* stopped; the last word of a stopped one may be missing (see README).      *)
RunsAreAnswered ==
    \A r \in Run : []<>(\/ runs[r].pc = "none"
                        \/ runs[r].pc = "done" /\ (runs[r].cancelled \/ runs[r].told))

(* A connection whose reader has ended gives its place back, whether its run  *)
(* reacts to the cancellation in time or not.                                *)
PlacesComeBack == \A c \in Conn : []<>~(conns[c].pc = "close" \/ (conns[c].pc = "stopping" /\ conns[c].after = "close"))

(* Places, tickets and runs are each held by one at a time.                  *)
SessionsAreCounted == TypeOK /\ PlacesAreCounted /\ TicketsAdmitOnce /\ OnlyLatestRuns
=============================================================================
