------------------------------ MODULE Limiter ------------------------------
(***************************************************************************)
(* util.Limiter (src/util/limiter.go) as Server.ListenStream uses it:     *)
(* NewLimiter(rate, burst, true), Wait() after every session.Accept, and  *)
(* the deferred Stop() once Accept fails.                                  *)
(*                                                                         *)
(* Channels: Throttle is buffered with capacity Burst (tokens counts what *)
(* it holds), the ticker's channel tick.C has capacity 1 and a tick that  *)
(* finds it full is dropped (tickBuf), quit is unbuffered: a send on it   *)
(* completes only together with the receive in the goroutine's select.    *)
(* Time is abstracted away: a tick may come at any moment while the       *)
(* ticker runs.  Every connection's ListenStream has its own limiter; the *)
(* variables are functions over the set Sessions.                         *)
(***************************************************************************)
EXTENDS Naturals

CONSTANTS Burst, Sessions

ASSUME Burst \in 1..5

VARIABLES
    tokens,     \* values buffered in Throttle
    tickBuf,    \* values buffered in tick.C (0 or 1)
    tickerOn,   \* the Ticker has not been stopped
    closed,     \* Throttle has been closed
    gpc,        \* the refill goroutine: "range", "select", "done"
    upc         \* ListenStream: "accept", "stop", "quit", "close", "done"

vars == <<tokens, tickBuf, tickerOn, closed, gpc, upc>>

\* NewLimiter with fill = true: Throttle starts full, the goroutine waits on
\* tick.C.
Init ==
    /\ tokens = [s \in Sessions |-> Burst]
    /\ tickBuf = [s \in Sessions |-> 0]
    /\ tickerOn = [s \in Sessions |-> TRUE]
    /\ closed = [s \in Sessions |-> FALSE]
    /\ gpc = [s \in Sessions |-> "range"]
    /\ upc = [s \in Sessions |-> "accept"]

\* The runtime's ticker fires; a tick that finds tick.C full is dropped.
Tick(s) ==
    /\ tickerOn[s]
    /\ tickBuf[s] = 0
    /\ tickBuf' = [tickBuf EXCEPT ![s] = 1]
    /\ UNCHANGED <<tokens, tickerOn, closed, gpc, upc>>

\* `for t := range tick.C`: receive a tick.
TickRecv(s) ==
    /\ gpc[s] = "range"
    /\ tickBuf[s] = 1
    /\ tickBuf' = [tickBuf EXCEPT ![s] = 0]
    /\ gpc' = [gpc EXCEPT ![s] = "select"]
    /\ UNCHANGED <<tokens, tickerOn, closed, upc>>

\* The select: among the ready cases, `<-quit` (Stop is sending) and
\* `throttle <- t` (Throttle not full), one is taken at random; default
\* only when neither is ready.
SelectQuit(s) ==
    /\ gpc[s] = "select"
    /\ upc[s] = "quit"
    /\ gpc' = [gpc EXCEPT ![s] = "done"]
    /\ upc' = [upc EXCEPT ![s] = "close"]
    /\ UNCHANGED <<tokens, tickBuf, tickerOn, closed>>

(* Variants of the throttle case: one that sends to a full Throttle (an  *)
(* unbounded buffer), one that takes the tick and sends nothing.          *)
SelectThrottleUnbounded(s) ==
    /\ gpc[s] = "select"
    /\ tokens' = [tokens EXCEPT ![s] = @ + 1]
    /\ gpc' = [gpc EXCEPT ![s] = "range"]
    /\ UNCHANGED <<tickBuf, tickerOn, closed, upc>>

SelectThrottleLost(s) ==
    /\ gpc[s] = "select"
    /\ tokens[s] < Burst
    /\ gpc' = [gpc EXCEPT ![s] = "range"]
    /\ UNCHANGED <<tokens, tickBuf, tickerOn, closed, upc>>

SelectThrottle(s) ==
    /\ gpc[s] = "select"
    /\ tokens[s] < Burst
    /\ tokens' = [tokens EXCEPT ![s] = @ + 1]
    /\ gpc' = [gpc EXCEPT ![s] = "range"]
    /\ UNCHANGED <<tickBuf, tickerOn, closed, upc>>

SelectDefault(s) ==
    /\ gpc[s] = "select"
    /\ upc[s] # "quit"
    /\ tokens[s] = Burst
    /\ gpc' = [gpc EXCEPT ![s] = "range"]
    /\ UNCHANGED <<tokens, tickBuf, tickerOn, closed, upc>>

\* Limiter.Wait: `<-l.Throttle` takes a token, blocking while there is none.
Wait(s) ==
    /\ tokens[s] > 0
    /\ tokens' = [tokens EXCEPT ![s] = @ - 1]

\* ListenStream: session.Accept returns (a stream or an error) and
\* limiter.Wait() takes a token, blocking while Throttle is empty.  On an
\* error the loop returns and the deferred Stop begins.
AcceptWait(s) ==
    /\ upc[s] = "accept"
    /\ Wait(s)
    /\ \/ upc' = [upc EXCEPT ![s] = "accept"]
       \/ upc' = [upc EXCEPT ![s] = "stop"]
    /\ UNCHANGED <<tickBuf, tickerOn, closed, gpc>>

\* Stop: l.Ticker.Stop(); a tick already in tick.C stays there.
StopTicker(s) ==
    /\ upc[s] = "stop"
    /\ tickerOn' = [tickerOn EXCEPT ![s] = FALSE]
    /\ upc' = [upc EXCEPT ![s] = "quit"]
    /\ UNCHANGED <<tokens, tickBuf, closed, gpc>>

\* Stop: close(l.Throttle), after the send on quit completed.
StopClose(s) ==
    /\ upc[s] = "close"
    /\ closed' = [closed EXCEPT ![s] = TRUE]
    /\ upc' = [upc EXCEPT ![s] = "done"]
    /\ UNCHANGED <<tokens, tickBuf, tickerOn, gpc>>

Next ==
    \E s \in Sessions :
        \/ Tick(s) \/ TickRecv(s) \/ SelectQuit(s) \/ SelectThrottle(s)
        \/ SelectDefault(s) \/ AcceptWait(s) \/ StopTicker(s) \/ StopClose(s)

\* The ticker fires while it runs and both goroutines run when they can;
\* only the moment a session ends (AcceptWait's choice) is left open.
Fairness ==
    \A s \in Sessions :
        /\ WF_vars(Tick(s)) /\ WF_vars(TickRecv(s))
        /\ WF_vars(SelectQuit(s) \/ SelectThrottle(s) \/ SelectDefault(s))
        /\ WF_vars(AcceptWait(s)) /\ WF_vars(StopTicker(s))
        /\ WF_vars(StopClose(s))

Spec == Init /\ [][Next]_vars /\ Fairness

-----------------------------------------------------------------------------
(* Properties                                                              *)

TypeOK ==
    /\ tokens \in [Sessions -> 0..Burst]
    /\ tickBuf \in [Sessions -> 0..1]
    /\ tickerOn \in [Sessions -> BOOLEAN] /\ closed \in [Sessions -> BOOLEAN]
    /\ gpc \in [Sessions -> {"range", "select", "done"}]
    /\ upc \in [Sessions -> {"accept", "stop", "quit", "close", "done"}]

\* Rate limiting never starves: while ListenStream is accepting, an empty
\* Throttle is refilled by the ticker goroutine, so Wait returns.
WaitEventuallyReturns ==
    \A s \in Sessions : (upc[s] = "accept" /\ tokens[s] = 0) ~> (tokens[s] > 0)

\* ListenStream's deferred limiter.Stop() returns, and the refill
\* goroutine exits with it.
StopReturns ==
    \A s \in Sessions : (upc[s] = "stop") ~> (upc[s] = "done" /\ gpc[s] = "done")

=============================================================================
