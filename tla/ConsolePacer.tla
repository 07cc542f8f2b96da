---------------------------- MODULE ConsolePacer ----------------------------
(* The local rate limit of the console models: callers of one model queue on  *)
(* its lock, the holder sleeps until its turn, a 429 pushes the turn back.     *)
EXTENDS Integers

CONSTANTS Caller,       \* requests for the model
          Interval,     \* consoleModelThrottleInterval, in ticks
          Cooldown,     \* consoleModelCooldownInterval, in ticks
          MaxWait,      \* consoleModelMaxQueueWait, in ticks
          MaxTurns,     \* bound on the calls of one caller
          Nobody

VARIABLES callers,      \* caller -> [pc, waited, turns]
          holder,       \* who has the lock of the model
          nextIn,       \* state.next, as ticks from now (0: due or past)
          sinceTurn,    \* ticks since the last admission, at most Interval
          coolLeft      \* ticks left of the last cooldown that was applied

vars == <<callers, holder, nextIn, sinceTurn, coolLeft>>

Higher(m, n) == IF m > n THEN m ELSE n
Lower(m, n) == IF m < n THEN m ELSE n
Goto(c, pc) == callers' = [callers EXCEPT ![c].pc = pc]
Free == holder = Nobody

\* Wait: the caller starts its clock and queues on the model's lock.
Wait(c) ==
    /\ callers[c].pc = "idle" /\ callers[c].turns < MaxTurns
    /\ callers' = [callers EXCEPT ![c] = [pc |-> "queue", waited |-> 0, turns |-> @.turns + 1]]
    /\ UNCHANGED <<holder, nextIn, sinceTurn, coolLeft>>

\* acquireConsoleRateLimitLock: the lock, the timer or the cancelled context,
\* whichever of those that are ready the select takes.
Acquire(c) ==
    /\ callers[c].pc = "queue" /\ Free
    /\ holder' = c /\ Goto(c, "check")
    /\ UNCHANGED <<nextIn, sinceTurn, coolLeft>>

QueueTimeout(c) ==
    /\ callers[c].pc = "queue" /\ MaxWait > 0 /\ callers[c].waited >= MaxWait
    /\ Goto(c, "idle")
    /\ UNCHANGED <<holder, nextIn, sinceTurn, coolLeft>>

\* Faulty variant: the refused caller keeps the lock.
QueueBusyLocked(c) ==
    /\ callers[c].pc = "check" /\ nextIn > 0
    /\ MaxWait > 0 /\ nextIn > MaxWait - callers[c].waited
    /\ Goto(c, "idle")
    /\ UNCHANGED <<holder, nextIn, sinceTurn, coolLeft>>

\* The turn is further away than this caller may still wait.
QueueBusy(c) ==
    /\ callers[c].pc = "check" /\ nextIn > 0
    /\ MaxWait > 0 /\ nextIn > MaxWait - callers[c].waited
    /\ holder' = Nobody /\ Goto(c, "idle")
    /\ UNCHANGED <<nextIn, sinceTurn, coolLeft>>

\* The holder sleeps with the lock in its hands.
Sleep(c) ==
    /\ callers[c].pc = "check" /\ nextIn > 0
    /\ MaxWait <= 0 \/ nextIn <= MaxWait - callers[c].waited
    /\ Goto(c, "sleep")
    /\ UNCHANGED <<holder, nextIn, sinceTurn, coolLeft>>

\* Faulty variant: the next turn is not booked.
AdmittedUnbooked(c) ==
    /\ sinceTurn' = 0 /\ holder' = Nobody /\ Goto(c, "run")
    /\ UNCHANGED <<nextIn, coolLeft>>

Admitted(c) ==
    /\ nextIn' = Interval /\ sinceTurn' = 0
    /\ holder' = Nobody /\ Goto(c, "run")
    /\ UNCHANGED coolLeft

\* The turn: at once, or when the timer of the sleep has fired.
Admit(c) ==
    /\ \/ callers[c].pc = "check" /\ nextIn = 0
       \/ callers[c].pc = "sleep" /\ nextIn = 0
    /\ Admitted(c)

\* The context is cancelled, in the queue or asleep.
Cancel(c) ==
    /\ callers[c].pc \in {"queue", "sleep", "delay"}
    /\ Goto(c, "idle")
    /\ holder' = IF holder = c THEN Nobody ELSE holder
    /\ UNCHANGED <<nextIn, sinceTurn, coolLeft>>

\* The upstream call of an admitted caller ends; a 429 calls Delay, which queues
\* on the lock without a timeout.
RunEnds(c) ==
    /\ callers[c].pc = "run"
    /\ Goto(c, "idle") \/ Goto(c, "delay")
    /\ UNCHANGED <<holder, nextIn, sinceTurn, coolLeft>>

Delay(c) ==
    /\ callers[c].pc = "delay" /\ Free
    /\ nextIn' = Higher(nextIn, Cooldown)
    /\ coolLeft' = Cooldown
    /\ Goto(c, "idle")
    /\ UNCHANGED <<holder, sinceTurn>>

Tick ==
    /\ nextIn' = Higher(nextIn - 1, 0)
    /\ coolLeft' = Higher(coolLeft - 1, 0)
    /\ sinceTurn' = Lower(sinceTurn + 1, Interval)
    /\ callers' = [c \in Caller |->
          IF callers[c].pc \in {"queue", "check", "sleep"}
          THEN [callers[c] EXCEPT !.waited = Lower(@ + 1, MaxWait)] ELSE callers[c]]
    /\ UNCHANGED holder

Init ==
    /\ callers = [c \in Caller |-> [pc |-> "idle", waited |-> 0, turns |-> 0]]
    /\ holder = Nobody /\ nextIn = 0 /\ sinceTurn = Interval /\ coolLeft = 0

\* What a caller does without anybody's leave: a cancelled context is not part.
Progress(c) == \/ Acquire(c) \/ QueueTimeout(c) \/ QueueBusy(c) \/ Sleep(c) \/ Admit(c)
               \/ RunEnds(c) \/ Delay(c)

Next == Tick \/ \E c \in Caller : Wait(c) \/ Progress(c) \/ Cancel(c)

Spec == Init /\ [][Next]_vars

-----------------------------------------------------------------------------
TypeOK ==
    /\ \A c \in Caller : /\ callers[c].pc \in {"idle", "queue", "check", "sleep", "run", "delay"}
                         /\ callers[c].waited \in 0 .. MaxWait /\ callers[c].turns \in 0 .. MaxTurns
    /\ holder \in Caller \cup {Nobody}
    /\ nextIn \in 0 .. Higher(Interval, Cooldown)
    /\ sinceTurn \in 0 .. Interval /\ coolLeft \in 0 .. Cooldown

Turn(c) == callers[c].pc \in {"check", "sleep"} /\ callers'[c].pc = "run"

\* Two admissions of a model are an interval apart, whatever the callers that
\* wait, give up and are cancelled do in between.
TurnsAreSpaced == [][(\E c \in Caller : Turn(c)) => sinceTurn = Interval]_vars

\* Once a cooldown is noted nobody is admitted before it is over: not the
\* callers that were already in the queue either.
CooldownHolds == [][(\E c \in Caller : Turn(c)) => coolLeft = 0]_vars

\* Nobody stays in the queue: a caller is admitted or refused, and the cooldown
\* of a 429 is noted in the end, also after refusals and cancellations.
QueueMoves == \A c \in Caller : []<>(callers[c].pc = "idle")

\* The pace the console is promised, in both its forms.
PaceHolds == []TypeOK /\ TurnsAreSpaced /\ CooldownHolds
=============================================================================
