---------------------------- MODULE RateLimiter ----------------------------
(***************************************************************************)
(* The sliding-window limiter every Discourse call goes through            *)
(* (community.py, _RateLimiter and the proxy _RateLimitedDiscourse), used  *)
(* by web requests in the app container and by cron jobs in the crond      *)
(* container.  They share a JSON list of call times and a lock file.       *)
(*                                                                         *)
(* A call time is kept as its age, now - t, capped at Window: the code     *)
(* only asks whether the age is below the window, and how long the oldest  *)
(* call it keeps has to go.  The clock never steps back.                   *)
(***************************************************************************)
EXTENDS Integers, Sequences, FiniteSets

CONSTANTS
    Processes,   \* web requests and commands, each making one call at a time
    MaxCalls,    \* DISCOURSE_RATE_LIMIT_MAX_CALLS
    Window,      \* DISCOURSE_RATE_LIMIT_WINDOW_SECS
    MaxLosses,   \* bound of the model: lost records within one window
    Unlocked        \* the lock is free

ASSUME LimitsAssumption ==
    /\ MaxCalls \in Nat \ {0}
    /\ Window \in Nat \ {0}
    /\ MaxLosses \in Nat
    /\ Unlocked \notin Processes
    /\ IsFiniteSet(Processes)

VARIABLES
    file,      \* ages in the state file; empty if there is none, or one that does not parse
    holder,    \* holder of the state file's lock
    pc,        \* where each process is in acquire() and in its call
    calls,     \* the holder's list
    wait,      \* what the holder has left to sleep
    granted,   \* history: ages of the tokens given within the window
    sent,      \* Discourse's view: ages of the calls it got within the window
    losses     \* history: ages of the records lost within the window

limiterVars == <<file, holder, pc, calls, wait, granted, sent, losses>>

-----------------------------------------------------------------------------
Ages == 0..Window

(* Definitions whose names say what a bug would make of the one below are mutants of it. *)

\* The entries of the list that are within the window that ends now
Within(list) ==
    LET upto[n \in 0 .. Len(list)] ==
          IF n = 0 THEN <<>>
          ELSE IF list[n] < Window THEN Append(upto[n - 1], list[n]) ELSE upto[n - 1]
    IN  upto[Len(list)]

\* The calls that still count for acquire()
Fresh(list) == Within(list)

\* One call too many passes.
FullLate(list) == Len(list) > MaxCalls

Full(list) == Len(list) >= MaxCalls

\* What acquire() writes
Recorded == calls

\* The lock is taken by hand and not given back.
KeepLock(p) == IF holder = p THEN calls' = <<>> /\ wait' = 0 /\ UNCHANGED holder
                             ELSE UNCHANGED <<holder, calls, wait>>

\* The with statement, or the end of the process, frees the lock.
FreeLock(p) == IF holder = p THEN holder' = Unlocked /\ calls' = <<>> /\ wait' = 0
                             ELSE UNCHANGED <<holder, calls, wait>>

Older(list) == [i \in DOMAIN list |-> IF list[i] < Window THEN list[i] + 1 ELSE Window]

Moves(p, from, to) == pc[p] = from /\ pc' = [pc EXCEPT ![p] = to]

-----------------------------------------------------------------------------
LimiterInit ==
    /\ file = <<>>
    /\ holder = Unlocked
    /\ pc = [p \in Processes |-> "idle"]
    /\ calls = <<>>
    /\ wait = 0
    /\ granted = <<>>
    /\ sent = <<>>
    /\ losses = <<>>

\* A request or a command makes its next call of the API.
Request(p) ==
    /\ Moves(p, "idle", "waiting")
    /\ UNCHANGED <<file, holder, calls, wait, granted, sent, losses>>

\* acquire() gets the lock and finds room in the window.
LockWithRoom(p) ==
    /\ holder = Unlocked
    /\ ~Full(Fresh(file))
    /\ Moves(p, "waiting", "stamped")
    /\ holder' = p
    /\ calls' = Append(Fresh(file), 0)
    /\ UNCHANGED <<file, wait, granted, sent, losses>>

\* acquire() gets the lock and sleeps, in the lock, until the oldest call leaves the window.
LockAndSleep(p) ==
    /\ holder = Unlocked
    /\ Full(Fresh(file))
    /\ Moves(p, "waiting", "sleeping")
    /\ holder' = p
    /\ calls' = Fresh(file)
    /\ wait' = Window - Head(Fresh(file))
    /\ UNCHANGED <<file, granted, sent, losses>>

\* The sleep is over: the list is filtered again and the call's time is added.
Wake(p) ==
    /\ wait = 0
    /\ Moves(p, "sleeping", "stamped")
    /\ calls' = Append(Fresh(calls), 0)
    /\ UNCHANGED <<file, holder, wait, granted, sent, losses>>

\* write_text() opens the file, which empties it, ...
Truncate(p) ==
    /\ Moves(p, "stamped", "writing")
    /\ file' = <<>>
    /\ UNCHANGED <<holder, calls, wait, granted, sent, losses>>

\* ... and writes the list; leaving the with statement frees the lock.
Store(p) ==
    /\ Moves(p, "writing", "granted")
    /\ file' = Recorded
    /\ FreeLock(p)
    /\ granted' = Within(Append(granted, calls[Len(calls)]))
    /\ UNCHANGED <<sent, losses>>

\* The HTTP call, any time after the lock was freed.  What the client itself repeats after
\* an answer that it called too often (raise_for_rate_limit=False) takes no token; it is
\* left out of sent.
Call(p) ==
    /\ Moves(p, "granted", "idle")
    /\ sent' = Append(sent, 0)
    /\ UNCHANGED <<file, holder, calls, wait, granted, losses>>

\* The process ends wherever it is; the system frees its lock and leaves the file as it is.
Crash(p) ==
    /\ pc[p] # "idle"
    /\ pc[p] = "writing" => Len(losses) < MaxLosses
    /\ Moves(p, pc[p], "idle")
    /\ losses' = IF pc[p] = "writing" THEN Append(losses, 0) ELSE losses
    /\ FreeLock(p)
    /\ UNCHANGED <<file, granted, sent>>

TickSecond ==
    /\ file' = Older(file)
    /\ calls' = Older(calls)
    /\ wait' = IF wait > 0 THEN wait - 1 ELSE 0
    /\ granted' = Within(Older(granted))
    /\ sent' = Within(Older(sent))
    /\ losses' = Within(Older(losses))
    /\ UNCHANGED <<holder, pc>>

Acquires(p) == LockWithRoom(p) \/ LockAndSleep(p)

MovesOn(p) == Wake(p) \/ Truncate(p) \/ Store(p) \/ Call(p)

LimiterNext ==
    \/ \E p \in Processes : Request(p) \/ Acquires(p) \/ MovesOn(p) \/ Crash(p)
    \/ TickSecond

LimiterSpec == LimiterInit /\ [][LimiterNext]_limiterVars

(***************************************************************************)
(* Time passes and a running process goes on.  InterProcessLock polls the  *)
(* lock, so a waiting process gets it if it is free again and again when   *)
(* it looks: strong fairness.                                              *)
(***************************************************************************)
LimiterFairness ==
    /\ WF_limiterVars(TickSecond)
    /\ \A p \in Processes : WF_limiterVars(MovesOn(p)) /\ SF_limiterVars(Acquires(p))

LimiterFairSpec == LimiterSpec /\ LimiterFairness

-----------------------------------------------------------------------------
(* Properties *)

\* Type correctness: lists of ages, and only the holder of the lock is inside acquire().
LimiterTypeOK ==
    /\ file \in Seq(Ages)
    /\ holder \in Processes \cup {Unlocked}
    /\ pc \in [Processes -> {"idle", "waiting", "sleeping", "stamped", "writing", "granted"}]
    /\ calls \in Seq(Ages) /\ granted \in Seq(Ages) /\ sent \in Seq(Ages) /\ losses \in Seq(Ages)
    /\ wait \in Ages
    /\ \A p \in Processes : pc[p] \in {"sleeping", "stamped", "writing"} <=> holder = p

(***************************************************************************)
(* acquire() gives at most MaxCalls tokens within any window, over all the *)
(* processes; a process that dies while it writes the file costs one more  *)
(* budget, because the next one starts from an empty list.  The call is    *)
(* made after the lock is freed, with no bound on the delay, so that       *)
(* Discourse can see tokens of an earlier window in this one: at most one  *)
(* of each process.  The margin between 55 and the server's 60 covers five *)
(* processes calling at once, and no more.                                 *)
(***************************************************************************)
WithinBudget ==
    /\ Len(granted) <= MaxCalls * (1 + Len(losses))
    /\ Len(sent) <= MaxCalls * (1 + Len(losses)) + Cardinality(Processes)

(* The lock is held by who is in its critical section, and the budget is kept. *)
LimiterOK == LimiterTypeOK /\ WithinBudget

\* A process that waits for a token gets one, or ends: sleeping in the lock blocks nobody for good.
Served == \A p \in Processes : pc[p] = "waiting" ~> pc[p] \in {"granted", "idle"}

=============================================================================
