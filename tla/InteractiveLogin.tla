-------------------------- MODULE InteractiveLogin --------------------------
(***************************************************************************)
(* Waiting for the user to sign in (src/account/client.rs and runtime.rs): *)
(* the poll loop of login_device and the loopback listener of login_pkce,  *)
(* each under its deadline.  What is done with a session once it is there  *)
(* is AccountSession; here a login that gets one is over.                  *)
(*                                                                         *)
(* Time is a counter.  It advances only while the client waits with an     *)
(* unexpired timer; the service, the user and whoever connects to the      *)
(* listener act at any time, or never.                                     *)
(***************************************************************************)
EXTENDS Integers

CONSTANTS
    login_timeout,      \* device_timeout and interactive_timeout
    request_timeout,
    MAX_DEVICE_POLL_INTERVAL, DEVICE_SLOW_DOWN,
    READ_TIMEOUT,       \* the wait for more bytes of a callback
    MaxReads,           \* reads that fill the 8 KiB a callback may have
    Intervals,          \* the poll intervals the service offers
    Lifetimes,          \* how long the device codes it offers are valid
    MaxTime             \* bound on the clock

ASSUME LoginAssumption ==
    /\ {login_timeout, request_timeout, MAX_DEVICE_POLL_INTERVAL, READ_TIMEOUT} \subseteq Nat \ {0}
    /\ DEVICE_SLOW_DOWN \in Nat /\ MaxReads \in Nat
    /\ Intervals \subseteq Nat /\ Lifetimes \subseteq Nat
    /\ MaxTime > login_timeout + MAX_DEVICE_POLL_INTERVAL + READ_TIMEOUT * (MaxReads + 1)

VARIABLES
    now,        \* the clock, 0 when the login starts
    login,      \* the client: the flow, where it is, its deadlines, its outcome
    grant,      \* the service: the user's decision, the spacing it wants, the last poll
    cancelled   \* runtime.cancelled()

vars == <<now, login, grant, cancelled>>

smaller(a, b) == IF a < b THEN a ELSE b

Init ==
    /\ now = 0
    /\ \E flow \in {"device", "pkce"} :
         login = [flow |-> flow, pc |-> "discover", deadline |-> login_timeout,
                  until |-> smaller(request_timeout, login_timeout),
                  interval |-> 0, reads |-> 0, status |-> "none"]
    /\ grant = [decision |-> "pending", required |-> 0, last |-> 0]
    /\ cancelled = FALSE

End(status) == login' = [login EXCEPT !.pc = "ended", !.status = status]

Ended == login.pc = "ended"

request_deadline(overall) == smaller(now + request_timeout, overall)

\* What ensure_before answers.
Late(deadline) == cancelled \/ now >= deadline

Requesting == login.pc \in {"discover", "begin", "polling", "exchanging"}

\* Any request can fail in transit, and fails when its deadline has passed.
RequestFails ==
    /\ Requesting
    /\ End("failed")
    /\ UNCHANGED <<now, grant, cancelled>>

\* The provider is known.  The device flow asks for a code; the other one opens
\* its listener and the browser, each of which may be unavailable.
Discovered ==
    /\ login.pc = "discover"
    /\ \/ /\ login.flow = "device"
          /\ login' = [login EXCEPT !.pc = "begin", !.until = request_deadline(login.deadline)]
       \/ /\ login.flow = "pkce"
          /\ login' = [login EXCEPT !.pc = "accepting"]
    /\ UNCHANGED <<now, grant, cancelled>>

-----------------------------------------------------------------------------
(* login_device.                                                           *)

\* The device code comes with a poll interval and an expiry that must make sense.
BeginDevice ==
    /\ login.pc = "begin"
    /\ \E i \in Intervals, e \in Lifetimes :
         IF i \in 1..MAX_DEVICE_POLL_INTERVAL /\ e > now /\ e <= login_timeout
           THEN /\ login' = [login EXCEPT !.pc = "loop", !.interval = i,
                                          !.deadline = smaller(login_timeout, e)]
                /\ grant' = [grant EXCEPT !.required = i, !.last = now]
           ELSE End("invalid") /\ UNCHANGED grant
    /\ UNCHANGED <<now, cancelled>>

Stop == End(IF cancelled THEN "cancelled" ELSE "expired")

MutSleep ==
    /\ login.pc = "loop"
    /\ login' = [login EXCEPT !.pc = "sleeping", !.until = now + login.interval]
    /\ UNCHANGED <<now, grant, cancelled>>

Sleep ==
    /\ login.pc = "loop"
    /\ IF Late(login.deadline) THEN Stop
       ELSE login' = [login EXCEPT !.pc = "sleeping", !.until = now + login.interval]
    /\ UNCHANGED <<now, grant, cancelled>>

\* Sending at once after the sleep.
MutPoll ==
    /\ login.pc = "sleeping" /\ now >= login.until
    /\ login' = [login EXCEPT !.pc = "polling", !.until = request_deadline(login.deadline)]
    /\ grant' = [grant EXCEPT !.last = now]
    /\ UNCHANGED <<now, cancelled>>

\* Giving up once another full interval would not fit.
MutPollEarly ==
    /\ login.pc = "sleeping" /\ now >= login.until
    /\ IF Late(login.deadline - login.interval) THEN Stop /\ UNCHANGED grant
       ELSE /\ login' = [login EXCEPT !.pc = "polling",
                                      !.until = request_deadline(login.deadline)]
            /\ grant' = [grant EXCEPT !.last = now]
    /\ UNCHANGED <<now, cancelled>>

\* The sleep is over: look at the clock again, then poll.
Poll ==
    /\ login.pc = "sleeping" /\ now >= login.until
    /\ IF Late(login.deadline) THEN Stop /\ UNCHANGED grant
       ELSE /\ login' = [login EXCEPT !.pc = "polling",
                                      !.until = request_deadline(login.deadline)]
            /\ grant' = [grant EXCEPT !.last = now]
    /\ UNCHANGED <<now, cancelled>>

MutSlower(interval) == interval

slower(interval) == smaller(interval + DEVICE_SLOW_DOWN, MAX_DEVICE_POLL_INTERVAL)

\* The answer to a poll: the session once the user has approved; pending or
\* slow_down while the user has not decided; denied, or an error.
PollAnswered ==
    /\ login.pc = "polling"
    /\ \/ grant.decision = "approved" /\ End("signed_in") /\ UNCHANGED grant
       \/ grant.decision = "denied" /\ End("denied") /\ UNCHANGED grant
       \/ /\ grant.decision = "pending"
          /\ login' = [login EXCEPT !.pc = "loop"]
          /\ UNCHANGED grant
       \/ /\ grant.decision = "pending"
          /\ login' = [login EXCEPT !.pc = "loop", !.interval = slower(@)]
          /\ grant' = [grant EXCEPT !.required = @ + DEVICE_SLOW_DOWN]
    /\ UNCHANGED <<now, cancelled>>

-----------------------------------------------------------------------------
(* login_pkce.                                                             *)

MutStopAccepting ==
    /\ login.pc = "accepting" /\ cancelled
    /\ Stop
    /\ UNCHANGED <<now, grant, cancelled>>

\* The accept loop gives up when it is cancelled or late.
StopAccepting ==
    /\ login.pc = "accepting" /\ Late(login.deadline)
    /\ Stop
    /\ UNCHANGED <<now, grant, cancelled>>

\* Something on this machine connects; it need not be the browser.
Accept ==
    /\ login.pc = "accepting" /\ ~Late(login.deadline)
    /\ login' = [login EXCEPT !.pc = "reading", !.until = now + READ_TIMEOUT]
    /\ UNCHANGED <<now, grant, cancelled>>

\* More bytes, and not the end of the request yet.
ReadMore ==
    /\ login.pc = "reading"
    /\ IF login.reads = MaxReads THEN End("invalid")
       ELSE login' = [login EXCEPT !.reads = @ + 1, !.until = now + READ_TIMEOUT]
    /\ UNCHANGED <<now, grant, cancelled>>

\* The request is complete, or the peer closed: the user's answer with our
\* state in it, or anything else, which ends the login.
ReadCallback ==
    /\ login.pc = "reading"
    /\ \/ /\ grant.decision = "approved"
          /\ login' = [login EXCEPT !.pc = "callback"]
       \/ grant.decision = "denied" /\ End("denied")
       \/ End("invalid")
    /\ UNCHANGED <<now, grant, cancelled>>

\* The peer stays silent for the read timeout.
ReadTimesOut ==
    /\ login.pc = "reading" /\ now >= login.until
    /\ End("invalid")
    /\ UNCHANGED <<now, grant, cancelled>>

Exchange ==
    /\ login.pc = "callback"
    /\ IF Late(login.deadline) THEN Stop
       ELSE login' = [login EXCEPT !.pc = "exchanging",
                                   !.until = request_deadline(login.deadline)]
    /\ UNCHANGED <<now, grant, cancelled>>

ExchangeAnswered ==
    /\ login.pc = "exchanging"
    /\ End("signed_in")
    /\ UNCHANGED <<now, grant, cancelled>>

-----------------------------------------------------------------------------
(* The user, the caller and the clock.                                     *)

Decide ==
    /\ ~Ended /\ grant.decision = "pending"
    /\ \E d \in {"approved", "denied"} : grant' = [grant EXCEPT !.decision = d]
    /\ UNCHANGED <<now, login, cancelled>>

Cancel ==
    /\ ~Ended /\ ~cancelled
    /\ cancelled' = TRUE
    /\ UNCHANGED <<now, login, grant>>

\* The client waits and none of its timers has expired.
Waiting ==
    \/ (Requesting \/ login.pc \in {"sleeping", "reading"}) /\ now < login.until
    \/ login.pc = "accepting" /\ ~Late(login.deadline)

Tick ==
    /\ Waiting /\ now < MaxTime
    /\ now' = now + 1
    /\ UNCHANGED <<login, grant, cancelled>>

\* What the client does by itself, once its timer has expired where it has one.
Client ==
    \/ Sleep \/ Poll \/ StopAccepting \/ ReadTimesOut \/ Exchange
    \/ now >= login.until /\ RequestFails

Answers ==
    \/ Discovered \/ BeginDevice \/ PollAnswered \/ ExchangeAnswered \/ RequestFails
    \/ Accept \/ ReadMore \/ ReadCallback

Next == Client \/ Answers \/ Decide \/ Cancel \/ Tick

\* The client is scheduled and the clock advances; the user, the service and
\* the network owe nothing.
Spec == Init /\ [][Next]_vars /\ WF_vars(Client) /\ WF_vars(Tick)

-----------------------------------------------------------------------------

Overrun == IF login.flow = "device" THEN MAX_DEVICE_POLL_INTERVAL
           ELSE READ_TIMEOUT * (MaxReads + 1)

\* No request of a login is on its way after the deadline: none is sent after it,
\* however long the sleep or the callback before it took, and one sent before it
\* is given up when it comes.
NeverSendsLate == Requesting => now <= login.deadline

\* Every poll keeps the distance the service has asked for, slow_down answers
\* included, up to the longest interval the client accepts.
PollsAreSpaced ==
    [][login.pc = "sleeping" /\ login'.pc = "polling" =>
         grant'.last - grant.last >= smaller(grant.required, MAX_DEVICE_POLL_INTERVAL)]_vars

\* What can follow the deadline is bounded: one sleep that was begun in time, or
\* one callback that trickles in byte by byte up to its size limit.
EndsInTime == ~Ended => now < login.deadline + Overrun

\* Every login comes to an end, whoever does not answer.
LoginEnds == <>Ended

\* A user who approves while a poll is still to come is signed in: nothing but
\* a failed request or a cancellation can stop it.
ApprovedSignsIn ==
    (login.pc = "sleeping" /\ grant.decision = "approved" /\ login.until < login.deadline)
      ~> (login.status \in {"signed_in", "failed"} \/ cancelled)

=============================================================================
