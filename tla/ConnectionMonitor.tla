------------------------- MODULE ConnectionMonitor -------------------------
(***************************************************************************)
(* ConnectionMonitor: is there a connection to the internet?               *)
(*                                                                         *)
(* While the monitor is started, an interval probes a few web servers, one *)
(* probe at a time.  connectedToInternetCheapAsync is cheaper: it sleeps   *)
(* until a peer sends something, or until a deadline.  All of it can be    *)
(* aborted by the signal the monitor was started with.                     *)
(*                                                                         *)
(* The clock is left out.  A deadline may pass at any step, and whether    *)
(* what was received last is recent enough is not determined.              *)
(***************************************************************************)
EXTENDS Integers

CONSTANTS
    Conn,            \* the callers of connectedToInternetCheapAsync: the
                     \* listeners of a connection, a call each at most
    MaxSessions      \* the abort controllers a run may make

ASSUME MonitorAssumption == MaxSessions \in Nat \ {0}

Signal == 1..MaxSessions
NoSignal == 0

VARIABLES
    abortedSignals,  \* the abort signals that have fired
    interval,        \* _intervalId is set
    abortSignal,     \* _abortSignal
    probe,           \* _intervalFunctionQueue: the signal of the running probe
    checks,          \* connectedToInternetCheapAsync: "none", "waiting", "heard"
                     \* once a probe has made it true, or the answer
    checkSignals     \* the two signals that abort it

monitorVars == <<interval, abortSignal, probe, checks, checkSignals>>

Answer == {"yes", "no", "aborted"}
Waiting == {"waiting", "heard"}

MonitorInit ==
    /\ abortedSignals = {}
    /\ interval = FALSE
    /\ abortSignal = NoSignal
    /\ probe = NoSignal
    /\ checks = [c \in Conn |-> "none"]
    /\ checkSignals = [c \in Conn |-> {}]

----------------------------------------------------------------------------
(* start, the interval and asyncDispose *)

(* _intervalFunction: a running probe is joined, and there is none if      *)
(* something was heard of lately.                                          *)
IntervalFunction(signal) ==
    probe' \in {probe, IF probe = NoSignal THEN signal ELSE probe}

(* start: nothing changes if the interval is set.  The caller goes on once *)
(* no probe is running.                                                    *)
StartMonitor(signal) ==
    IF interval
    THEN UNCHANGED <<interval, abortSignal, probe>>
    ELSE /\ interval' = TRUE
         /\ abortSignal' = signal
         /\ IntervalFunction(signal)

IntervalFires ==
    /\ interval
    /\ IntervalFunction(abortSignal)
    /\ UNCHANGED <<interval, abortSignal, checks, checkSignals>>

(* checkInternetConnection answers, or times out, or is aborted.  A probe  *)
(* that succeeds wakes nobody, but those it is news to find so later.      *)
ProbeEnds ==
    /\ probe # NoSignal
    /\ probe' = NoSignal
    /\ \E told \in SUBSET {c \in Conn : checks[c] = "waiting"} :
          checks' = [c \in Conn |-> IF c \in told THEN "heard" ELSE checks[c]]
    /\ UNCHANGED <<interval, abortSignal, checkSignals>>

(* Fault: the interval is cleared, and _intervalId left as it was. *)
DisposeMonitor_KeepsId == UNCHANGED <<interval, abortSignal>>

(* asyncDispose.  The caller goes on once no probe is running. *)
DisposeMonitor ==
    /\ interval' = FALSE
    /\ UNCHANGED abortSignal

----------------------------------------------------------------------------
(* connectedToInternetCheapAsync *)

Check(c, signal) ==
    IF interval
    THEN /\ checks' = [checks EXCEPT ![c] = "waiting"]
         /\ checkSignals' = [checkSignals EXCEPT ![c] = {abortSignal, signal}]
    ELSE /\ checks' = [checks EXCEPT ![c] = "aborted"]
         /\ UNCHANGED checkSignals

(* updateLastKnownConnectionTime: those it is news to are woken up. *)
DataArrives ==
    /\ \E told \in SUBSET {c \in Conn : checks[c] = "waiting"} :
          checks' = [c \in Conn |-> IF c \in told \/ checks[c] = "heard" THEN "yes"
                                    ELSE checks[c]]
    /\ UNCHANGED <<interval, abortSignal, probe, checkSignals>>

(* Fault: only data ends the wait. *)
CheckTimesOut_Never(c) ==
    /\ checks[c] = "heard"
    /\ checks' = [checks EXCEPT ![c] = "yes"]
    /\ UNCHANGED <<interval, abortSignal, probe, checkSignals>>

CheckTimesOut(c) ==
    /\ checks[c] \in Waiting
    /\ checks' = [checks EXCEPT ![c] = IF @ = "heard" THEN "yes" ELSE "no"]
    /\ UNCHANGED <<interval, abortSignal, probe, checkSignals>>

IsAborted(c) == checks[c] \in Waiting /\ checkSignals[c] \cap abortedSignals # {}

CheckAborts(c) ==
    /\ IsAborted(c)
    /\ checks' = [checks EXCEPT ![c] = "aborted"]
    /\ UNCHANGED <<interval, abortSignal, probe, checkSignals>>

(* The caller takes its answer. *)
Answered(c) == checks' = [checks EXCEPT ![c] = "none"] /\ checkSignals' = [checkSignals EXCEPT ![c] = {}]

=============================================================================
