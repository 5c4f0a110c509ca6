----------------------- MODULE InteractiveLoginProofs -----------------------
(***************************************************************************)
(* For every timeout, interval and lifetime: a login's requests stay       *)
(* inside its deadline, and the login is over a bounded time after it.     *)
(***************************************************************************)
EXTENDS InteractiveLogin, TLAPS

Pcs == {"discover", "begin", "loop", "sleeping", "polling", "accepting", "reading",
        "callback", "exchanging", "ended"}

Login == [flow : {"device", "pkce"}, pc : Pcs,
          deadline : Nat, until : Nat, interval : 0..MAX_DEVICE_POLL_INTERVAL,
          reads : 0..MaxReads,
          status : {"none", "failed", "invalid", "cancelled", "expired", "denied", "signed_in"}]

ReadsTake(n) == READ_TIMEOUT * n

Flows ==
    /\ login.pc \in {"begin", "loop", "sleeping", "polling"} => login.flow = "device"
    /\ login.pc \in {"accepting", "reading", "callback", "exchanging"} => login.flow = "pkce"

\* The clock never passes the timer that is running; a request's timer ends with
\* the login's deadline, and a sleep was begun before it.
Timers ==
    /\ login.pc \in {"discover", "begin", "polling", "exchanging"} =>
         now <= login.until /\ login.until <= login.deadline
    /\ login.pc \in {"discover", "begin"} => login.deadline = login_timeout
    /\ login.pc = "loop" => now <= login.deadline
    /\ login.pc = "sleeping" =>
         now <= login.until /\ login.until < login.deadline + MAX_DEVICE_POLL_INTERVAL
    /\ login.pc = "accepting" => now <= login.deadline
    /\ login.pc = "reading" =>
         /\ now <= login.until
         /\ login.until < login.deadline + ReadsTake(login.reads + 1)
    /\ login.pc = "callback" => now < login.deadline + ReadsTake(MaxReads + 1)

\* The interval is the one the service asks for, as far as the client follows
\* it, and a sleep covers it.
Spacing ==
    /\ grant.required \in Nat /\ grant.last \in Nat
    /\ login.pc \in {"loop", "sleeping", "polling"} =>
         /\ login.interval = smaller(grant.required, MAX_DEVICE_POLL_INTERVAL)
         /\ grant.last <= now
    /\ login.pc = "sleeping" => grant.last + login.interval <= login.until

Types ==
    /\ now \in Nat /\ cancelled \in BOOLEAN /\ login \in Login
    /\ grant \in [decision : {"pending", "approved", "denied"}, required : Nat, last : Nat]

IInv == Types /\ Flows /\ Timers /\ Spacing

-----------------------------------------------------------------------------

LEMMA Constants ==
    /\ login_timeout \in Nat \ {0} /\ request_timeout \in Nat \ {0}
    /\ MAX_DEVICE_POLL_INTERVAL \in Nat \ {0} /\ READ_TIMEOUT \in Nat \ {0}
    /\ DEVICE_SLOW_DOWN \in Nat /\ MaxReads \in Nat
    /\ Intervals \subseteq Nat /\ Lifetimes \subseteq Nat
BY LoginAssumption

\* One more read, or fewer reads than the limit, in terms of the time they take.
LEMMA ReadTime ==
    ASSUME NEW r \in 0..MaxReads
    PROVE  /\ ReadsTake(r + 1) \in Nat \ {0}
           /\ ReadsTake(r + 1 + 1) = ReadsTake(r + 1) + READ_TIMEOUT
           /\ ReadsTake(0 + 1) = READ_TIMEOUT
           /\ ReadsTake(r + 1) <= ReadsTake(MaxReads + 1)
<1> USE Constants DEF ReadsTake
<1> DEFINE d == MaxReads - r
<1>1. READ_TIMEOUT * (r + 1) \in Nat /\ READ_TIMEOUT * (r + 1) = READ_TIMEOUT * r + READ_TIMEOUT
  OBVIOUS
<1>2. READ_TIMEOUT * r \in Nat /\ READ_TIMEOUT * d \in Nat  OBVIOUS
<1>3. READ_TIMEOUT * (MaxReads + 1) = READ_TIMEOUT * (r + 1) + READ_TIMEOUT * d  OBVIOUS
<1>4. READ_TIMEOUT * (r + 1 + 1) = READ_TIMEOUT * (r + 1) + READ_TIMEOUT  OBVIOUS
<1>5. READ_TIMEOUT * (0 + 1) = READ_TIMEOUT  OBVIOUS
<1> QED BY <1>1, <1>2, <1>3, <1>4, <1>5

\* The end of a login disturbs nothing: no timer runs any more.
LEMMA EndIInv ==
    ASSUME IInv, End(login'.status), UNCHANGED <<now, grant, cancelled>>,
           login'.status \in {"failed", "invalid", "cancelled", "expired", "denied", "signed_in"}
    PROVE  IInv'
<1>1. login \in Login /\ login' = [login EXCEPT !.pc = "ended", !.status = login'.status]
  BY DEF End, IInv, Types
<1>2. login' \in Login /\ login'.pc = "ended"  BY <1>1 DEF Login, Pcs
<1>3. Types' /\ Flows' /\ Timers' /\ Spacing'
  BY <1>2 DEF IInv, Types, Flows, Timers, Spacing
<1> QED BY <1>3 DEF IInv

LEMMA EndsAs ==
    ASSUME login \in Login, NEW status, End(status)
    PROVE  login'.status = status /\ End(login'.status)
BY DEF End, Login

\* A step that goes on to pc and starts a timer.
Starts(pc, until) == login' = [login EXCEPT !.pc = pc, !.until = until]

LEMMA StartsType ==
    ASSUME login \in Login, NEW pc \in Pcs, NEW until \in Nat, Starts(pc, until)
    PROVE  /\ login' \in Login /\ login'.pc = pc /\ login'.until = until
           /\ login'.flow = login.flow /\ login'.deadline = login.deadline
           /\ login'.interval = login.interval /\ login'.reads = login.reads
BY DEF Starts, Login

\* The deadline of a request that is made in time lies between now and the
\* deadline of the login.
LEMMA RequestDeadline ==
    ASSUME now \in Nat, NEW d \in Nat, now <= d
    PROVE  /\ request_deadline(d) \in Nat
           /\ now <= request_deadline(d) /\ request_deadline(d) <= d
BY Constants DEF request_deadline, smaller

\* Such a request keeps the invariant, whichever it is.
LEMMA RequestIInv ==
    ASSUME IInv, NEW pc \in {"begin", "polling", "exchanging"}, now <= login.deadline,
           Starts(pc, request_deadline(login.deadline)), UNCHANGED <<now, cancelled>>,
           login.flow = IF pc = "exchanging" THEN "pkce" ELSE "device",
           pc = "begin" => login.deadline = login_timeout,
           Types', Spacing'
    PROVE  IInv'
<1>1. login \in Login /\ now \in Nat /\ login.deadline \in Nat  BY DEF IInv, Types, Login
<1>2. /\ request_deadline(login.deadline) \in Nat /\ now <= request_deadline(login.deadline)
      /\ request_deadline(login.deadline) <= login.deadline
  BY <1>1, RequestDeadline
<1>3. /\ login'.pc = pc /\ login'.until = request_deadline(login.deadline)
      /\ login'.flow = login.flow /\ login'.deadline = login.deadline
  BY <1>1, <1>2, StartsType DEF Pcs
<1>4. Flows'  BY <1>3 DEF Flows
<1>5. Timers'  BY <1>2, <1>3 DEF Timers
<1> QED BY <1>4, <1>5 DEF IInv

LEMMA InitIInv == Init => IInv
<1> SUFFICES ASSUME Init PROVE IInv  OBVIOUS
<1>1. smaller(request_timeout, login_timeout) \in Nat
      /\ smaller(request_timeout, login_timeout) <= login_timeout
  BY Constants DEF smaller
<1>2. login \in Login /\ login.pc = "discover" /\ login.deadline = login_timeout
      /\ login.until = smaller(request_timeout, login_timeout)
  BY <1>1, Constants DEF Init, Login, Pcs
<1>3. Types  BY <1>2 DEF Init, Types
<1>4. Flows /\ Timers  BY <1>1, <1>2, Constants DEF Flows, Timers, Init
<1>5. Spacing  BY <1>2 DEF Init, Spacing
<1> QED BY <1>3, <1>4, <1>5 DEF IInv

LEMMA StepIInv == IInv /\ [Next]_vars => IInv'
<1> SUFFICES ASSUME IInv, [Next]_vars PROVE IInv'  OBVIOUS
<1>t. login \in Login  BY DEF IInv, Types
<1>e. ASSUME NEW status \in {"failed", "invalid", "cancelled", "expired", "denied", "signed_in"},
             End(status), UNCHANGED <<now, grant, cancelled>>
      PROVE  IInv'
  BY <1>e, <1>t, EndsAs, EndIInv
<1>s. ASSUME Stop, UNCHANGED <<now, grant, cancelled>> PROVE IInv'
  BY <1>s, <1>e DEF Stop
<1>1. CASE Sleep
  <2>1. CASE Late(login.deadline)  BY <1>1, <2>1, <1>s DEF Sleep
  <2>2. CASE ~Late(login.deadline)
    <3>1. now \in Nat /\ login.interval \in 0..MAX_DEVICE_POLL_INTERVAL /\ now < login.deadline
          /\ login.pc = "loop" /\ UNCHANGED <<now, grant, cancelled>>
      BY <1>1, <2>2, <1>t DEF Sleep, Late, IInv, Types, Login
    <3>2. login' = [login EXCEPT !.pc = "sleeping", !.until = now + login.interval]
      BY <1>1, <2>2 DEF Sleep
    <3>3. /\ login' \in Login /\ login'.pc = "sleeping" /\ login'.until = now + login.interval
          /\ login'.deadline = login.deadline /\ login'.interval = login.interval
          /\ login'.flow = login.flow
      <4>1. now + login.interval \in Nat  BY <3>1, Constants
      <4> QED BY <3>1, <3>2, <4>1, <1>t, StartsType DEF Starts, Pcs
    <3>4. Types' /\ Flows'  BY <3>1, <3>3 DEF IInv, Types, Flows
    <3>5. Timers'  BY <3>1, <3>3, <1>t, Constants DEF Login, Timers
    <3>6. Spacing'  BY <3>1, <3>3, <1>t DEF IInv, Types, Login, Spacing
    <3> QED BY <3>4, <3>5, <3>6 DEF IInv
  <2> QED BY <2>1, <2>2
<1>2. CASE Poll
  <2>1. CASE Late(login.deadline)  BY <1>2, <2>1, <1>s DEF Poll
  <2>2. CASE ~Late(login.deadline)
    <3>1. now \in Nat /\ login.deadline \in Nat /\ now <= login.deadline
          /\ login.pc = "sleeping" /\ UNCHANGED <<now, cancelled>>
      BY <1>2, <2>2, <1>t DEF Poll, Late, IInv, Types, Login
    <3>2. Starts("polling", request_deadline(login.deadline))  BY <1>2, <2>2 DEF Poll, Starts
    <3>3. login' \in Login /\ login'.pc = "polling" /\ login'.interval = login.interval
      BY <3>1, <3>2, <1>t, RequestDeadline, StartsType DEF Pcs
    <3>4. grant' = [grant EXCEPT !.last = now]  BY <1>2, <2>2 DEF Poll
    <3>5. Types'  BY <3>1, <3>3, <3>4 DEF IInv, Types
    <3>6. Spacing'  BY <3>1, <3>3, <3>4 DEF IInv, Types, Spacing
    <3>7. login.flow = "device"  BY <3>1 DEF IInv, Flows
    <3> QED BY <3>1, <3>2, <3>5, <3>6, <3>7, RequestIInv
  <2> QED BY <2>1, <2>2
<1>3. CASE StopAccepting  BY <1>3, <1>s DEF StopAccepting
<1>4. CASE ReadTimesOut  BY <1>4, <1>e DEF ReadTimesOut
<1>5. CASE Exchange
  <2>1. CASE Late(login.deadline)  BY <1>5, <2>1, <1>s DEF Exchange
  <2>2. CASE ~Late(login.deadline)
    <3>1. now \in Nat /\ login.deadline \in Nat /\ now <= login.deadline
          /\ login.pc = "callback" /\ UNCHANGED <<now, grant, cancelled>>
      BY <1>5, <2>2, <1>t DEF Exchange, Late, IInv, Types, Login
    <3>2. Starts("exchanging", request_deadline(login.deadline))
      BY <1>5, <2>2 DEF Exchange, Starts
    <3>3. login' \in Login /\ login'.pc = "exchanging"
      BY <3>1, <3>2, <1>t, RequestDeadline, StartsType DEF Pcs
    <3>4. Types' /\ Spacing'  BY <3>1, <3>3 DEF IInv, Types, Spacing
    <3>5. login.flow = "pkce"  BY <3>1 DEF IInv, Flows
    <3> QED BY <3>1, <3>2, <3>4, <3>5, RequestIInv
  <2> QED BY <2>1, <2>2
<1>6. CASE RequestFails  BY <1>6, <1>e DEF RequestFails
<1>7. CASE Discovered
  <2>1. /\ now \in Nat /\ login.deadline \in Nat /\ now <= login.deadline
        /\ login.deadline = login_timeout /\ UNCHANGED <<now, grant, cancelled>>
    BY <1>7, <1>t DEF Discovered, IInv, Types, Login, Timers
  <2>2. CASE login.flow = "device" /\ Starts("begin", request_deadline(login.deadline))
    <3>1. login' \in Login /\ login'.pc = "begin"
      BY <2>1, <2>2, <1>t, RequestDeadline, StartsType DEF Pcs
    <3>2. Types' /\ Spacing'  BY <2>1, <3>1 DEF IInv, Types, Spacing
    <3> QED BY <2>1, <2>2, <3>2, RequestIInv
  <2>3. CASE login.flow = "pkce" /\ login' = [login EXCEPT !.pc = "accepting"]
    BY <2>1, <2>3, <1>t DEF IInv, Types, Login, Pcs, Flows, Timers, Spacing
  <2> QED BY <1>7, <2>2, <2>3 DEF Discovered, Starts
<1>8. CASE BeginDevice
  <2>1. CASE End("invalid") /\ UNCHANGED grant  BY <1>8, <2>1, <1>e DEF BeginDevice
  <2>2. CASE \E i \in Intervals, e \in Lifetimes :
               /\ i \in 1..MAX_DEVICE_POLL_INTERVAL /\ e > now /\ e <= login_timeout
               /\ login' = [login EXCEPT !.pc = "loop", !.interval = i,
                                         !.deadline = smaller(login_timeout, e)]
               /\ grant' = [grant EXCEPT !.required = i, !.last = now]
    <3>1. PICK i \in Intervals, e \in Lifetimes :
             /\ i \in 1..MAX_DEVICE_POLL_INTERVAL /\ e > now /\ e <= login_timeout
             /\ login' = [login EXCEPT !.pc = "loop", !.interval = i,
                                       !.deadline = smaller(login_timeout, e)]
             /\ grant' = [grant EXCEPT !.required = i, !.last = now]
      BY <2>2
    <3>2. now \in Nat /\ UNCHANGED <<now, cancelled>> /\ login.flow = "device"
      BY <1>8 DEF BeginDevice, IInv, Types, Flows
    <3>3. /\ smaller(login_timeout, e) \in Nat /\ now <= smaller(login_timeout, e)
          /\ i \in 0..MAX_DEVICE_POLL_INTERVAL /\ i \in Nat
          /\ i = smaller(i, MAX_DEVICE_POLL_INTERVAL)
      BY <3>1, <3>2, Constants DEF smaller
    <3>4. /\ login' \in Login /\ login'.pc = "loop" /\ login'.interval = i
          /\ login'.deadline = smaller(login_timeout, e) /\ login'.flow = login.flow
      BY <3>1, <3>3, <1>t DEF Login, Pcs
    <3>5. /\ grant'.required = i /\ grant'.last = now
          /\ grant' \in [decision : {"pending", "approved", "denied"}, required : Nat, last : Nat]
      BY <3>1, <3>2, <3>3 DEF IInv, Types
    <3>6. Types' /\ Flows' /\ Timers' /\ Spacing'
      BY <3>2, <3>3, <3>4, <3>5 DEF IInv, Types, Flows, Timers, Spacing
    <3> QED BY <3>6 DEF IInv
  <2> QED BY <1>8, <2>1, <2>2 DEF BeginDevice
<1>9. CASE PollAnswered
  <2>1. CASE End("signed_in") /\ UNCHANGED grant  BY <1>9, <2>1, <1>e DEF PollAnswered
  <2>2. CASE End("denied") /\ UNCHANGED grant  BY <1>9, <2>2, <1>e DEF PollAnswered
  <2>3. CASE login' = [login EXCEPT !.pc = "loop"] /\ UNCHANGED grant
    BY <1>9, <2>3, <1>t DEF PollAnswered, IInv, Types, Login, Pcs, Flows, Timers, Spacing
  <2>4. CASE /\ login' = [login EXCEPT !.pc = "loop", !.interval = slower(@)]
             /\ grant' = [grant EXCEPT !.required = @ + DEVICE_SLOW_DOWN]
    <3>1. login.interval \in 0..MAX_DEVICE_POLL_INTERVAL /\ grant.required \in Nat
          /\ login.interval = smaller(grant.required, MAX_DEVICE_POLL_INTERVAL)
      BY <1>9 DEF PollAnswered, IInv, Types, Login, Spacing
    <3>2. /\ slower(login.interval) \in 0..MAX_DEVICE_POLL_INTERVAL
          /\ slower(login.interval)
               = smaller(grant.required + DEVICE_SLOW_DOWN, MAX_DEVICE_POLL_INTERVAL)
      BY <3>1, Constants DEF slower, smaller
    <3>3. /\ login' \in Login /\ login'.pc = "loop" /\ login'.interval = slower(login.interval)
          /\ login'.flow = login.flow /\ login'.deadline = login.deadline
      BY <2>4, <3>2, <1>t DEF Login, Pcs
    <3>4. /\ grant'.required = grant.required + DEVICE_SLOW_DOWN /\ grant'.last = grant.last
          /\ grant' \in [decision : {"pending", "approved", "denied"}, required : Nat, last : Nat]
      BY <2>4, Constants DEF IInv, Types
    <3>5. /\ UNCHANGED <<now, cancelled>> /\ login.flow = "device"
          /\ now <= login.deadline /\ grant.last <= now
      BY <1>9, <1>t DEF PollAnswered, IInv, Types, Login, Flows, Timers, Spacing
    <3>6. Types' /\ Flows' /\ Timers'
      BY <3>3, <3>4, <3>5 DEF IInv, Types, Flows, Timers
    <3>7. Spacing'  BY <3>2, <3>3, <3>4, <3>5 DEF IInv, Types, Spacing
    <3> QED BY <3>6, <3>7 DEF IInv
  <2> QED BY <1>9, <2>1, <2>2, <2>3, <2>4 DEF PollAnswered
<1>10. CASE ExchangeAnswered  BY <1>10, <1>e DEF ExchangeAnswered
<1>11. CASE Accept
  <2>1. login.reads \in 0..MaxReads  BY <1>t DEF Login
  <2>2. READ_TIMEOUT <= ReadsTake(login.reads + 1)
    BY <2>1, Constants, ReadTime, 0 \in 0..MaxReads DEF ReadsTake
  <2>3. /\ now \in Nat /\ login.deadline \in Nat /\ now < login.deadline
        /\ login.flow = "pkce" /\ UNCHANGED <<now, grant, cancelled>>
    BY <1>11, <1>t DEF Accept, Late, IInv, Types, Login, Flows
  <2>4. Starts("reading", now + READ_TIMEOUT) /\ now + READ_TIMEOUT \in Nat
    BY <1>11, <2>3, Constants DEF Accept, Starts
  <2>5. /\ login' \in Login /\ login'.pc = "reading" /\ login'.until = now + READ_TIMEOUT
        /\ login'.flow = login.flow /\ login'.deadline = login.deadline
        /\ login'.reads = login.reads
    BY <2>4, <1>t, StartsType DEF Pcs
  <2>6. ReadsTake(login.reads + 1) \in Nat  BY <2>1, ReadTime
  <2>7. Types' /\ Flows' /\ Spacing'  BY <2>3, <2>5 DEF IInv, Types, Flows, Spacing
  <2>8. Timers'  BY <2>2, <2>3, <2>5, <2>6, Constants DEF Timers
  <2> QED BY <2>7, <2>8 DEF IInv
<1>12. CASE ReadMore
  <2>1. CASE login.reads = MaxReads  BY <1>12, <2>1, <1>e DEF ReadMore
  <2>2. CASE login.reads # MaxReads
    <3>1. /\ now \in Nat /\ login.deadline \in Nat /\ login.until \in Nat
          /\ login.reads \in 0..MaxReads /\ login.reads + 1 \in 0..MaxReads
          /\ login.pc = "reading" /\ login.flow = "pkce" /\ UNCHANGED <<now, grant, cancelled>>
      BY <1>12, <2>2, <1>t, Constants DEF ReadMore, IInv, Types, Login, Flows
    <3>2. now <= login.until /\ login.until < login.deadline + ReadsTake(login.reads + 1)
      BY <3>1 DEF IInv, Timers
    <3>3. /\ ReadsTake(login.reads + 1) \in Nat
          /\ ReadsTake(login.reads + 1 + 1) = ReadsTake(login.reads + 1) + READ_TIMEOUT
      BY <3>1, ReadTime
    <3>4. now + READ_TIMEOUT \in Nat
          /\ login' = [login EXCEPT !.reads = login.reads + 1, !.until = now + READ_TIMEOUT]
      BY <1>12, <2>2, <3>1, <1>t, Constants DEF ReadMore, Login
    <3>5. /\ login' \in Login /\ login'.pc = "reading" /\ login'.until = now + READ_TIMEOUT
          /\ login'.flow = login.flow /\ login'.deadline = login.deadline
          /\ login'.reads = login.reads + 1
      BY <3>1, <3>4, <1>t DEF Login
    <3>6. Types' /\ Flows' /\ Spacing'  BY <3>1, <3>5 DEF IInv, Types, Flows, Spacing
    <3>7. Timers'  BY <3>1, <3>2, <3>3, <3>5, Constants DEF Timers
    <3> QED BY <3>6, <3>7 DEF IInv
  <2> QED BY <2>1, <2>2
<1>13. CASE ReadCallback
  <2>1. CASE login' = [login EXCEPT !.pc = "callback"]
    <3>1. login.reads \in 0..MaxReads  BY <1>t DEF Login
    <3>2. ReadsTake(login.reads + 1) \in Nat /\ ReadsTake(MaxReads + 1) \in Nat
          /\ ReadsTake(login.reads + 1) <= ReadsTake(MaxReads + 1)
      BY <3>1, ReadTime, Constants, MaxReads \in 0..MaxReads
    <3> QED BY <1>13, <2>1, <3>2, <1>t
            DEF ReadCallback, IInv, Types, Login, Pcs, Flows, Timers, Spacing
  <2>2. CASE End("denied") \/ End("invalid")  BY <1>13, <2>2, <1>e DEF ReadCallback
  <2> QED BY <1>13, <2>1, <2>2 DEF ReadCallback
<1>14. CASE Decide  BY <1>14, Constants DEF Decide, IInv, Types, Login, Flows, Timers, Spacing
<1>15. CASE Cancel  BY <1>15 DEF Cancel, IInv, Types, Login, Flows, Timers, Spacing
<1>16. CASE Tick
  BY <1>16, Constants
  DEF Tick, Waiting, Requesting, Late, IInv, Types, Login, Flows, Timers, Spacing
<1>17. CASE UNCHANGED vars  BY <1>17 DEF vars, IInv, Types, Login, Flows, Timers, Spacing
<1> QED BY <1>1, <1>2, <1>3, <1>4, <1>5, <1>6, <1>7, <1>8, <1>9, <1>10, <1>11, <1>12, <1>13,
           <1>14, <1>15, <1>16, <1>17 DEF Next, Client, Answers

LEMMA Inductive == Spec => []IInv
BY InitIInv, StepIInv, PTL DEF Spec

-----------------------------------------------------------------------------

\* Whatever the timeouts, intervals and lifetimes, the clock is not past the
\* login's deadline while one of its requests is on its way: the second look at
\* the clock keeps a sleep or a callback that took too long from being followed
\* by one, and the request's own deadline ends it in time.
THEOREM RequestsStayInside == Spec => []NeverSendsLate
<1>1. IInv => NeverSendsLate
  BY DEF IInv, Types, Login, Timers, Requesting, NeverSendsLate
<1> QED BY <1>1, Inductive, PTL

\* A login is over at most one poll interval, or one trickled callback, after
\* its deadline.
THEOREM LoginOverInTime == Spec => []EndsInTime
<1>1. IInv => EndsInTime
  <2> SUFFICES ASSUME IInv, ~Ended PROVE now < login.deadline + Overrun
    BY DEF EndsInTime
  <2>1. login.reads \in 0..MaxReads /\ login \in Login  BY DEF IInv, Types, Login
  <2>2. /\ ReadsTake(login.reads + 1) \in Nat \ {0} /\ ReadsTake(MaxReads + 1) \in Nat \ {0}
        /\ ReadsTake(login.reads + 1) <= ReadsTake(MaxReads + 1)
    BY <2>1, ReadTime, Constants, MaxReads \in 0..MaxReads
  <2>3. Overrun = IF login.flow = "device" THEN MAX_DEVICE_POLL_INTERVAL ELSE ReadsTake(MaxReads + 1)
    BY DEF Overrun, ReadsTake
  <2> QED BY <2>1, <2>2, <2>3, Constants DEF IInv, Types, Login, Pcs, Flows, Timers, Ended
<1> QED BY <1>1, Inductive, PTL

\* The service is never polled sooner than it asked, slow_down answers included,
\* up to the longest interval the client accepts.
THEOREM PollsKeepTheirDistance == Spec => PollsAreSpaced
<1> DEFINE Spaced ==
      login.pc = "sleeping" /\ login'.pc = "polling" =>
        grant'.last - grant.last >= smaller(grant.required, MAX_DEVICE_POLL_INTERVAL)
<1>1. IInv /\ [Next]_vars => [Spaced]_vars
  <2> SUFFICES ASSUME IInv, Next, login.pc = "sleeping", login'.pc = "polling"
               PROVE  grant'.last - grant.last >= smaller(grant.required, MAX_DEVICE_POLL_INTERVAL)
    OBVIOUS
  <2>1. Poll
    BY DEF Next, Client, Answers, Sleep, StopAccepting, ReadTimesOut, Exchange, RequestFails,
           Requesting, Discovered, BeginDevice, PollAnswered, ExchangeAnswered, Accept, ReadMore,
           ReadCallback, Decide, Cancel, Tick, IInv, Types, Login, End, Stop
  <2>2. grant'.last = now /\ now >= login.until
    BY <2>1 DEF Poll, Stop, End, IInv, Types, Login
  <2> QED BY <2>2, Constants DEF IInv, Types, Login, Spacing, smaller
<1> QED BY <1>1, Inductive, PTL DEF Spec, PollsAreSpaced

=============================================================================
